---- MODULE Spec2Model ----
(***************************************************************************)
(* yajsondiff: the recursive differencer (deepDiff and its public entry    *)
(* points) and the patcher (applyChanges / revertChanges), modelled over   *)
(* an explicit heap of JavaScript objects so that reference identity,      *)
(* aliasing and in-place mutation are observable.                          *)
(***************************************************************************)
EXTENDS Integers, Sequences, FiniteSets, TLC

(***************************************************************************)
(* Bounds of the explored input space.                                     *)
(***************************************************************************)
MaxNum == 2
MaxLen == 2

(***************************************************************************)
(* JavaScript values.  Every value is a record [t, n, s]: t is the tag, n  *)
(* a numeric payload, s a string payload.  Composite values (plain objects *)
(* and arrays) are references into the heap: [t |-> "ref", n |-> address]. *)
(* Dates, regular expressions and the Math namespace carry no mutable      *)
(* state the library touches and are kept as immutable tagged values.      *)
(***************************************************************************)
V(t, n, s) == [t |-> t, n |-> n, s |-> s]
Undef == V("undefined", 0, "")
Hole == V("hole", 0, "")
Null == V("null", 0, "")
NaN == V("number", 0, "NaN")
MathV == V("math", 0, "")
Num(n) == V("number", n, "")
Str(s) == V("string", 0, s)
Bool(b) == V("boolean", IF b THEN 1 ELSE 0, "")
Date(n) == V("date", n, "")
Regexp(s) == V("regexp", 0, s)
Ref(a) == V("ref", a, "")

IsRef(v) == v.t = "ref"
IsNaN(v) == v.t = "number" /\ v.s = "NaN"

\* The typeof operator.
TypeOf(v) ==
  IF v.t \in {"undefined", "number", "string", "boolean"} THEN v.t
  ELSE IF v.t = "hole" THEN "undefined"
  ELSE "object"

\* ToBoolean: the truthiness test of `if (x)` and `a && b`.
Truthy(v) ==
  CASE v.t \in {"undefined", "hole", "null"} -> FALSE
    [] v.t = "number" -> v.s # "NaN" /\ v.n # 0
    [] v.t = "string" -> v.s # ""
    [] v.t = "boolean" -> v.n = 1
    [] OTHER -> TRUE

\* The strict equality operator ===.
StrictEq(x, y) ==
  CASE IsNaN(x) \/ IsNaN(y) -> FALSE
    [] x.t \in {"date", "regexp"} \/ y.t \in {"date", "regexp"} -> FALSE
    [] x.t \in {"undefined", "hole"} -> y.t \in {"undefined", "hole"}
    [] OTHER -> x = y

(***************************************************************************)
(* The heap: a sequence of nodes, a node's address being its index.  A     *)
(* node is an array (arr = TRUE, elements e) or a plain object (own string *)
(* keys k in enumeration order, with their values m in parallel).  bare is  *)
(* TRUE for an object without a prototype, made by Object.create(null).    *)
(***************************************************************************)
MkArr(es) == [arr |-> TRUE, e |-> es, k |-> <<>>, m |-> <<>>, bare |-> FALSE]
MkObj(ks, ms) == [arr |-> FALSE, e |-> <<>>, k |-> ks, m |-> ms, bare |-> FALSE]
MkBare(ks, ms) == [arr |-> FALSE, e |-> <<>>, k |-> ks, m |-> ms, bare |-> TRUE]

IsArray(h, v) == IsRef(v) /\ h[v.n].arr
IsPlain(h, v) == IsRef(v) /\ ~h[v.n].arr

Alloc(h, node) == [h |-> Append(h, node), v |-> Ref(Len(h) + 1)]

\* The addresses a value leads to through elements and properties.
Range(sq) == {sq[i] : i \in DOMAIN sq}
RefsOfNode(nd) == {v.n : v \in {x \in Range(nd.e) \cup Range(nd.m) : IsRef(x)}}

RECURSIVE Reach(_, _, _)
Reach(h, frontier, seen) ==
  IF frontier = {} THEN seen
  ELSE LET nxt == UNION {RefsOfNode(h[a]) : a \in frontier} \ (seen \cup frontier)
       IN Reach(h, nxt, seen \cup frontier)

Reachable(h, roots) == Reach(h, roots, {})

\* Position of key s among the own keys ks (0 when absent): Array#indexOf + 1.
RECURSIVE IndexOf(_, _)
IndexOf(ks, s) ==
  IF ks = <<>> THEN 0
  ELSE IF ks[Len(ks)] = s /\ IndexOf(SubSeq(ks, 1, Len(ks) - 1), s) = 0 THEN Len(ks)
  ELSE IndexOf(SubSeq(ks, 1, Len(ks) - 1), s)

\* Decimal text of a non-negative integer: Number.prototype.toString.
Digits == <<"0", "1", "2", "3", "4", "5", "6", "7", "8", "9">>
RECURSIVE NumStr(_)
NumStr(n) == IF n < 10 THEN Digits[n + 1] ELSE NumStr(n \div 10) \o Digits[(n % 10) + 1]

\* ToPropertyKey: the own-key string a path segment addresses on an object.
ToKey(seg) ==
  CASE seg.t = "string" -> seg.s
    [] seg.t = "number" -> IF seg.s = "NaN" THEN "NaN" ELSE NumStr(seg.n)
    [] OTHER -> seg.t

IsIndex(seg) == seg.t = "number" /\ seg.s = "" /\ seg.n >= 0

\* Object.getOwnPropertyDescriptor(obj, key) as a truth value.
HasOwn(h, v, seg) ==
  /\ IsRef(v)
  /\ IF h[v.n].arr /\ IsIndex(seg)
       THEN seg.n < Len(h[v.n].e) /\ h[v.n].e[seg.n + 1] # Hole
       ELSE IndexOf(h[v.n].k, ToKey(seg)) # 0

\* Outcome of a step that may throw: err is TRUE when a TypeError or Error
\* was raised; h is the heap as the step left it; v the value produced.
Ok(h, v) == [err |-> FALSE, h |-> h, v |-> v]
Throw(h) == [err |-> TRUE, h |-> h, v |-> Undef]

Read(x) == IF x = Hole THEN Undef ELSE x

\* The property read v[seg].  Reading a property of undefined or null throws.
Get(h, v, seg) ==
  CASE v.t \in {"undefined", "hole", "null"} -> Throw(h)
    [] IsRef(v) ->
         LET nd == h[v.n] IN
         IF nd.arr /\ IsIndex(seg)
           THEN Ok(h, IF seg.n < Len(nd.e) THEN Read(nd.e[seg.n + 1]) ELSE Undef)
           ELSE LET p == IndexOf(nd.k, ToKey(seg)) IN
                Ok(h, IF p = 0 THEN Undef ELSE nd.m[p])
    [] OTHER -> Ok(h, Undef)

\* Array elements after the assignment arr[i] = x (i may lie past the end,
\* which leaves holes in between).
RECURSIVE Holes(_)
Holes(n) == IF n <= 0 THEN <<>> ELSE Append(Holes(n - 1), Hole)
SetElem(es, i, x) ==
  IF i < Len(es) THEN [es EXCEPT ![i + 1] = x]
  ELSE Append(es \o Holes(i - Len(es)), x)

\* The assignment v[seg] = x.  The module is strict-mode code: assigning a
\* property of a primitive throws, as it does for undefined and null.
Set(h, v, seg, x) ==
  IF ~IsRef(v) THEN Throw(h)
  ELSE
    LET nd == h[v.n] IN
    IF nd.arr /\ IsIndex(seg)
      THEN Ok([h EXCEPT ![v.n].e = SetElem(nd.e, seg.n, x)], x)
      ELSE LET p == IndexOf(nd.k, ToKey(seg)) IN
           IF p = 0
             THEN Ok([h EXCEPT ![v.n].k = Append(nd.k, ToKey(seg)),
                               ![v.n].m = Append(nd.m, x)], x)
             ELSE Ok([h EXCEPT ![v.n].m[p] = x], x)

RemoveAt(sq, p) == SubSeq(sq, 1, p - 1) \o SubSeq(sq, p + 1, Len(sq))

\* delete v[seg].  On an array it leaves a hole and keeps the length.
Delete(h, v, seg) ==
  CASE v.t \in {"undefined", "hole", "null"} -> Throw(h)
    [] IsRef(v) ->
         LET nd == h[v.n] IN
         IF nd.arr /\ IsIndex(seg)
           THEN IF seg.n < Len(nd.e)
                  THEN Ok([h EXCEPT ![v.n].e[seg.n + 1] = Hole], Undef)
                  ELSE Ok(h, Undef)
           ELSE LET p == IndexOf(nd.k, ToKey(seg)) IN
                IF p = 0 THEN Ok(h, Undef)
                ELSE Ok([h EXCEPT ![v.n].k = RemoveAt(nd.k, p),
                                  ![v.n].m = RemoveAt(nd.m, p)], Undef)
    [] OTHER -> Ok(h, Undef)

(***************************************************************************)
(* Literals.  A literal is a record [t, n, s, k, c] describing a value     *)
(* written in the caller's program: a scalar, an array literal with the    *)
(* element literals c, or an object literal with keys k and values c.      *)
(* Eval builds it on the heap, children first, as evaluation does.         *)
(***************************************************************************)
Lit(v) == [t |-> v.t, n |-> v.n, s |-> v.s, k |-> <<>>, c |-> <<>>]
ArrLit(cs) == [t |-> "arr", n |-> 0, s |-> "", k |-> <<>>, c |-> cs]
ObjLit(ks, cs) == [t |-> "obj", n |-> 0, s |-> "", k |-> ks, c |-> cs]
\* Object.create(null), then one assignment per key.
BareLit(ks, cs) == [t |-> "bare", n |-> 0, s |-> "", k |-> ks, c |-> cs]

RECURSIVE Eval(_, _)
RECURSIVE EvalAll(_, _)
Eval(h, lit) ==
  IF lit.t \notin {"arr", "obj", "bare"} THEN [h |-> h, v |-> V(lit.t, lit.n, lit.s)]
  ELSE LET r == EvalAll(h, lit.c) IN
       Alloc(r.h, CASE lit.t = "arr" -> MkArr(r.vs)
                    [] lit.t = "bare" -> MkBare(lit.k, r.vs)
                    [] OTHER -> MkObj(lit.k, r.vs))
EvalAll(h, lits) ==
  IF lits = <<>> THEN [h |-> h, vs |-> <<>>]
  ELSE LET r == EvalAll(h, SubSeq(lits, 1, Len(lits) - 1))
           x == Eval(r.h, lits[Len(lits)]) IN
       [h |-> x.h, vs |-> Append(r.vs, x.v)]

(***************************************************************************)
(* Change records.  kind is "E" (EditDiff), "N" (NewDiff), "D"             *)
(* (DeleteDiff) or "A" (ArrayDiff).  path = <<>> stands for an absent      *)
(* path: the BaseDiff constructor never stores an empty path.  pathed      *)
(* tells whether the record has the property `path` at all.  item is       *)
(* <<>> or the one-element sequence holding the nested record.             *)
(***************************************************************************)
\* The constructor `this.path = path`, which stores whatever it is given.
BaseDiffStoring(kind, path) ==
  [kind |-> kind, path |-> path, pathed |-> TRUE,
   lhs |-> Undef, rhs |-> Undef, index |-> 0, item |-> <<>>]

\* if (path) { if (Array.isArray(path) && !path.length) return; this.path = path }
BaseDiff(kind, path) ==
  [kind |-> kind, path |-> path, pathed |-> path # <<>>,
   lhs |-> Undef, rhs |-> Undef, index |-> 0, item |-> <<>>]
EditDiff(path, origin, value) == [BaseDiff("E", path) EXCEPT !.lhs = origin, !.rhs = value]
NewDiff(path, value) == [BaseDiff("N", path) EXCEPT !.rhs = value]
DeleteDiff(path, origin) == [BaseDiff("D", path) EXCEPT !.lhs = origin]
ArrayDiff(path, index, item) == [BaseDiff("A", path) EXCEPT !.index = index, !.item = <<item>>]

(***************************************************************************)
(* The type oracle.                                                        *)
(***************************************************************************)
\* The oracle without its Array.isArray test: arrays classified as objects.
realTypeOfNoArray(h, subject) ==
  IF TypeOf(subject) # "object" THEN TypeOf(subject)
  ELSE IF subject = MathV THEN "math"
  ELSE IF subject = Null THEN "null"
  ELSE IF subject.t = "date" THEN "date"
  ELSE IF subject.t = "regexp" THEN "regexp"
  ELSE "object"

\* typeof subject.toString === 'function': the method is inherited from
\* the prototype unless the object has none or owns a `toString` property,
\* which the values considered here never set to a function.
HasToString(h, subject) ==
  IsRef(subject) => ~h[subject.n].bare /\ IndexOf(h[subject.n].k, "toString") = 0

\* /^\/.*\//.test(subject.toString()): of the values that reach the test,
\* regular expressions print as /pattern/flags, plain objects as
\* [object Object].
RegexShaped(subject) == subject.t = "regexp"

\* The oracle calling subject.toString() without testing that it is a
\* function: the call raises a TypeError when it is not.
realTypeOfUnguarded(h, subject) ==
  IF TypeOf(subject) # "object" THEN TypeOf(subject)
  ELSE IF subject = MathV THEN "math"
  ELSE IF subject = Null THEN "null"
  ELSE IF IsArray(h, subject) THEN "array"
  ELSE IF subject.t = "date" THEN "date"
  ELSE IF ~HasToString(h, subject) THEN "TypeError"
  ELSE IF RegexShaped(subject) THEN "regexp"
  ELSE "object"

\* The result "TypeError" stands for a call that raises; realTypeOf itself
\* never does.
realTypeOf(h, subject) ==
  IF TypeOf(subject) # "object" THEN TypeOf(subject)
  ELSE IF subject = MathV THEN "math"
  ELSE IF subject = Null THEN "null"
  ELSE IF IsArray(h, subject) THEN "array"
  ELSE IF subject.t = "date" THEN "date"
  ELSE IF HasToString(h, subject) /\ RegexShaped(subject) THEN "regexp"
  ELSE "object"

\* RegExp.prototype.toString: the canonical /pattern/flags text.
RegexToString(v) == Str(v.s)

\* Object.keys: own enumerable string keys (array indices as strings are not
\* needed: deepDiff never calls Object.keys on an array).
ObjectKeys(h, v) == IF IsRef(v) THEN h[v.n].k ELSE <<>>

(***************************************************************************)
(* The order-independent hash.                                             *)
(***************************************************************************)
\* String.prototype.charCodeAt over the whole of a text: the UTF-16 code
\* units of the texts the hash is taken of.
CharCodes(s) ==
  CASE s = "[type: array, hash: " -> <<91, 116, 121, 112, 101, 58, 32, 97, 114, 114, 97, 121, 44, 32, 104, 97, 115, 104, 58, 32>>
    [] s = "]" -> <<93>>
    [] s = "[ type: object, key: " -> <<91, 32, 116, 121, 112, 101, 58, 32, 111, 98, 106, 101, 99, 116, 44, 32, 107, 101, 121, 58, 32>>
    [] s = ", value hash: " -> <<44, 32, 118, 97, 108, 117, 101, 32, 104, 97, 115, 104, 58, 32>>
    [] s = "[ type: " -> <<91, 32, 116, 121, 112, 101, 58, 32>>
    [] s = " ; value: " -> <<32, 59, 32, 118, 97, 108, 117, 101, 58, 32>>
    [] s = "a" -> <<97>>
    [] s = "b" -> <<98>>
    [] s = "x" -> <<120>>
    [] s = "Aa" -> <<65, 97>>
    [] s = "BB" -> <<66, 66>>
    [] s = "toString" -> <<116, 111, 83, 116, 114, 105, 110, 103>>
    [] s = "true" -> <<116, 114, 117, 101>>
    [] s = "false" -> <<102, 97, 108, 115, 101>>
    [] s = "null" -> <<110, 117, 108, 108>>
    [] s = "undefined" -> <<117, 110, 100, 101, 102, 105, 110, 101, 100>>
    [] s = "NaN" -> <<78, 97, 78>>
    [] s = "number" -> <<110, 117, 109, 98, 101, 114>>
    [] s = "string" -> <<115, 116, 114, 105, 110, 103>>
    [] s = "boolean" -> <<98, 111, 111, 108, 101, 97, 110>>
    [] s = "regexp" -> <<114, 101, 103, 101, 120, 112>>
    [] s = "math" -> <<109, 97, 116, 104>>
    [] s = "/a/" -> <<47, 97, 47>>
    [] s = "/a/i" -> <<47, 97, 47, 105>>
    [] s = "[object Math]" -> <<91, 111, 98, 106, 101, 99, 116, 32, 77, 97, 116, 104, 93>>
    [] s = "" -> <<>>

\* A number holding an integer that may lie beyond 32 bits, as the sums of
\* hashes do: the integer q * 2^16 + r with 0 <= r < 2^16.
Limb == 65536
Wide(q, r) == [q |-> q, r |-> r]

\* The operator + on two such numbers (exact: far below 2^53), here with the
\* accumulator counted twice.
PlusWeighted(x, y) ==
  Wide(2 * x.q + y.q + (2 * x.r + y.r) \div Limb, (2 * x.r + y.r) % Limb)

\* The operator + on two such numbers (exact: far below 2^53).
Plus(x, y) == Wide(x.q + y.q + (x.r + y.r) \div Limb, (x.r + y.r) % Limb)

Negated(w) == IF w.r = 0 THEN Wide(0 - w.q, 0) ELSE Wide(0 - w.q - 1, Limb - w.r)

\* Number.prototype.toString of an integer: its decimal digits, after a
\* minus sign when it is negative.
RECURSIVE DecimalOf(_, _)
DecimalOf(q, r) ==
  IF q = 0 /\ r < 10 THEN <<48 + r>>
  ELSE Append(DecimalOf(q \div 10, ((q % 10) * Limb + r) \div 10),
              48 + (((q % 10) * Limb + r) % 10))
NumberToString(w) ==
  IF w.q < 0 THEN <<45>> \o DecimalOf(Negated(w).q, Negated(w).r) ELSE DecimalOf(w.q, w.r)

\* The 32-bit integer held by `hash`, as its two 16-bit halves.
Halves(hi, lo) == [hi |-> hi, lo |-> lo]
\* hash = (hash << 5) - hash + char; hash = hash & hash: 31 * hash + char
\* reduced to 32 bits.
HashStep(hash, char) ==
  Halves((hash.hi * 31 + (hash.lo * 31 + char) \div Limb) % Limb, (hash.lo * 31 + char) % Limb)
\* The 32 bits read as a signed integer.
Signed(hash) == Wide(IF hash.hi >= Limb \div 2 THEN hash.hi - Limb ELSE hash.hi, hash.lo)
\* The loop over the characters of str: loop[hash, from, to] is the value
\* of hash after the iterations i = from - 1, ..., to - 1 in this order (the
\* range is halved rather than peeled, which keeps the evaluation shallow).
hashThisString(str) ==
  LET loop[hash \in [hi : 0..(Limb - 1), lo : 0..(Limb - 1)], from \in Nat, to \in Nat] ==
        IF from > to THEN hash
        ELSE IF from = to THEN HashStep(hash, str[from])
        ELSE loop[loop[hash, from, (from + to) \div 2], (from + to) \div 2 + 1, to]
  IN Signed(loop[Halves(0, 0), 1, Len(str)])

\* '' + object for the values that are neither arrays nor objects.  (The
\* text of a date depends on the host's time zone and is left out.)
ToText(object) ==
  CASE object.t = "number" -> IF object.s = "NaN" THEN CharCodes("NaN") ELSE DecimalOf(0, object.n)
    [] object.t = "string" -> CharCodes(object.s)
    [] object.t = "boolean" -> CharCodes(IF object.n = 1 THEN "true" ELSE "false")
    [] object.t \in {"undefined", "hole"} -> CharCodes("undefined")
    [] object.t = "null" -> CharCodes("null")
    [] object.t = "regexp" -> CharCodes(object.s)
    [] object.t = "math" -> CharCodes("[object Math]")

ArrayString(accum) ==
  CharCodes("[type: array, hash: ") \o NumberToString(accum) \o CharCodes("]")
KeyValueString(key, valueHash) ==
  CharCodes("[ type: object, key: ") \o CharCodes(key) \o CharCodes(", value hash: ")
    \o NumberToString(valueHash) \o CharCodes("]")
StringToHash(type, object) ==
  CharCodes("[ type: ") \o CharCodes(type) \o CharCodes(" ; value: ") \o ToText(object)
    \o CharCodes("]")

\* return accum + hashThisString(arrayString)
HashArray(accum) == Plus(accum, hashThisString(ArrayString(accum)))

\* The hash of a value.  The for...of loop reads a hole as undefined; the
\* for...in loop visits the own keys in enumeration order, and
\* object.hasOwnProperty(key) holds for each of them (the objects hashed
\* here have a prototype and no own property of that name).
RECURSIVE getOrderIndependentHash(_, _)
RECURSIVE HashItems(_, _, _, _)
RECURSIVE HashKeys(_, _, _, _, _)
HashItems(h, es, i, accum) ==
  IF i > Len(es) THEN accum
  ELSE HashItems(h, es, i + 1, Plus(accum, getOrderIndependentHash(h, Read(es[i]))))
HashKeys(h, ks, ms, i, accum) ==
  IF i > Len(ks) THEN accum
  ELSE HashKeys(h, ks, ms, i + 1,
                Plus(accum, hashThisString(KeyValueString(ks[i], getOrderIndependentHash(h, ms[i])))))
getOrderIndependentHash(h, object) ==
  IF realTypeOf(h, object) = "array" THEN HashArray(HashItems(h, h[object.n].e, 1, Wide(0, 0)))
  ELSE IF realTypeOf(h, object) = "object"
    THEN HashKeys(h, h[object.n].k, h[object.n].m, 1, Wide(0, 0))
  ELSE hashThisString(StringToHash(realTypeOf(h, object), object))

\* A call of getOrderIndependentHash that never returns: the recursion has
\* no guard against a value that leads back to itself, and ends when the
\* call stack is exhausted (RangeError).
Endless(h, object) ==
  /\ IsRef(object)
  /\ \E n \in Reachable(h, {object.n}) : n \in Reachable(h, RefsOfNode(h[n]))

\* The comparator (a, b) => getOrderIndependentHash(a) - getOrderIndependentHash(b)
\* returning a negative number.
HashBefore(x, y) == x.q < y.q \/ (x.q = y.q /\ x.r < y.r)

\* The sorted sequence with x put in, after the elements that do not sort
\* behind it: the sort is stable.
RECURSIVE InsertByHash(_, _, _, _)
InsertByHash(h, sorted, x, n) ==
  IF n = 0 THEN <<x>> \o sorted
  ELSE IF HashBefore(getOrderIndependentHash(h, x), getOrderIndependentHash(h, sorted[n]))
    THEN InsertByHash(h, sorted, x, n - 1)
  ELSE SubSeq(sorted, 1, n) \o <<x>> \o SubSeq(sorted, n + 1, Len(sorted))
InsertLast(h, sorted, x) == InsertByHash(h, sorted, x, Len(sorted))
RECURSIVE SortedByHash(_, _, _)
SortedByHash(h, es, n) ==
  IF n = 0 THEN <<>> ELSE InsertLast(h, SortedByHash(h, es, n - 1), es[n])

\* Array.prototype.sort with that comparator: the elements other than
\* undefined in sorted order, then the undefined ones, then the holes.
IsSorted(x) == x # Undef /\ x # Hole
Compared(es) == SelectSeq(es, IsSorted)
SortElems(h, es) ==
  SortedByHash(h, Compared(es), Len(Compared(es)))
    \o SelectSeq(es, LAMBDA x : x = Undef) \o SelectSeq(es, LAMBDA x : x = Hole)
\* The comparator is called, on every element, once there are two of them.
SortRaises(h, es) ==
  Len(Compared(es)) >= 2 /\ \E i \in DOMAIN es : IsSorted(es[i]) /\ Endless(h, es[i])

\* A prefilter is given or not; when given it is the set of locations
\* (path followed by key) for which the callback returns a truthy value.
NoPrefilter == [given |-> FALSE, veto |-> {}]
Prefilter(veto) == [given |-> TRUE, veto |-> veto]
CallPrefilter(pf, path, key) == Append(path, key) \in pf.veto

\* The gate written `if (prefilter) return prefilter(currentPath, key)`:
\* it leaves the comparison whenever a prefilter is supplied.
PrefilterSkipsAlways(pf, path, key) == pf.given

\* The gate `prefilter && prefilter(currentPath, key)`.
PrefilterSkips(pf, path, key) == pf.given /\ CallPrefilter(pf, path, key)

\* The last branch without its NaN exception.
ScalarDiffersNoNaN(lhs, rhs) == ~StrictEq(lhs, rhs)

\* The last branch: `lhs !== rhs` unless both are NaN numbers.
ScalarDiffers(lhs, rhs) ==
  ~StrictEq(lhs, rhs) /\ ~(TypeOf(lhs) = "number" /\ IsNaN(lhs) /\ IsNaN(rhs))

\* The `defined` test with the ownership test made for the right side only.
DefinedRightOnly(h, stack, x, side, key) ==
  \/ TypeOf(x) # "undefined"
  \/ /\ side = "rhs"
     /\ Len(stack) # 0
     /\ Truthy(stack[Len(stack)][side])
     /\ HasOwn(h, stack[Len(stack)][side], key)

\* The `defined` test of deepDiff for one side: side is "lhs" or "rhs".
Defined(h, stack, x, side, key) ==
  \/ TypeOf(x) # "undefined"
  \/ /\ Len(stack) # 0
     /\ Truthy(stack[Len(stack)][side])
     /\ HasOwn(h, stack[Len(stack)][side], key)

OnStack(stack, lhs) == \E i \in 1..Len(stack) : stack[i].lhs = lhs /\ IsRef(lhs)

Push(st, c) == [st EXCEPT !.changes = Append(st.changes, c)]

\* while (i > j) changes.push(new ArrayDiff(currentPath, i, new NewDiff(undefined, rhs[i--])))
RECURSIVE ArrayNews(_, _, _, _, _)
ArrayNews(st, rhs, cur, i, j) ==
  IF i > j
    THEN ArrayNews(Push(st, ArrayDiff(cur, i, NewDiff(<<>>, Get(st.h, rhs, Num(i)).v))),
                   rhs, cur, i - 1, j)
    ELSE st

\* while (j > i) changes.push(new ArrayDiff(currentPath, j, new DeleteDiff(undefined, lhs[j--])))
RECURSIVE ArrayDeletes(_, _, _, _, _)
ArrayDeletes(st, lhs, cur, i, j) ==
  IF j > i
    THEN ArrayDeletes(Push(st, ArrayDiff(cur, j, DeleteDiff(<<>>, Get(st.h, lhs, Num(j)).v))),
                      lhs, cur, i, j - 1)
    ELSE st

Min(a, b) == IF a < b THEN a ELSE b

RECURSIVE deepDiff(_, _, _, _, _, _)
RECURSIVE ArrayPairs(_, _, _, _, _, _)
RECURSIVE LhsKeysLoop(_, _, _, _, _, _, _, _)
RECURSIVE RhsKeysLoop(_, _, _, _, _, _, _)

\* An error raised anywhere in the comparison ends it: st.err is set and
\* every later step leaves the state as it is.
Raise(st) == [st EXCEPT !.err = TRUE]

\* The recursive call deepDiff({ lhs: <read>, rhs: <read>, ..., key }), gl
\* and gr being the outcomes of the two property reads.
PairAt(st, gl, gr, cur, key, pf) ==
  deepDiff(IF gl.err \/ gr.err THEN Raise(st) ELSE st, gl.v, gr.v, cur, key, pf)

\* for (; i >= 0; i--) deepDiff({ lhs: lhs[i], rhs: rhs[i], ..., key: i })
ArrayPairs(st, lhs, rhs, cur, i, pf) ==
  IF i >= 0
    THEN ArrayPairs(PairAt(st, Get(st.h, lhs, Num(i)), Get(st.h, rhs, Num(i)), cur, Num(i), pf),
                    lhs, rhs, cur, i - 1, pf)
    ELSE st

\* The loop over the rhsKeys that are left: `if (k)` skips the nulls.
RhsKeysLoop(st, lhs, rhs, cur, rhsKeys, i, pf) ==
  IF i > Len(rhsKeys) THEN st
  ELSE IF Truthy(rhsKeys[i])
    THEN RhsKeysLoop(PairAt(st, Ok(st.h, Undef), Get(st.h, rhs, rhsKeys[i]), cur, rhsKeys[i], pf),
                     lhs, rhs, cur, rhsKeys, i + 1, pf)
    ELSE RhsKeysLoop(st, lhs, rhs, cur, rhsKeys, i + 1, pf)

\* The loop over lhsKeys, followed by the loop over rhsKeys; rhsKeys is the
\* working copy in which the keys found on both sides are overwritten by
\* null.
LhsKeysLoop(st, lhs, rhs, cur, lhsKeys, i, rhsKeys, pf) ==
  IF i > Len(lhsKeys) THEN RhsKeysLoop(st, lhs, rhs, cur, rhsKeys, 1, pf)
  ELSE
    LET k == lhsKeys[i]
        indexOfRhsKey == IndexOf(rhsKeys, Str(k))
    IN LhsKeysLoop(PairAt(st, Get(st.h, lhs, Str(k)),
                          IF indexOfRhsKey >= 1 THEN Get(st.h, rhs, Str(k)) ELSE Ok(st.h, Undef),
                          cur, Str(k), pf),
                   lhs, rhs, cur, lhsKeys, i + 1,
                   IF indexOfRhsKey >= 1 THEN [rhsKeys EXCEPT ![indexOfRhsKey] = Null]
                   ELSE rhsKeys,
                   pf)

StrKeys(ks) == [i \in DOMAIN ks |-> Str(ks[i])]

\* The array branch with the pairwise loop run before the two while loops.
ArrayBranchPairsFirst(st, lhs, rhs, cur, i, j, pf) ==
  ArrayDeletes(ArrayNews(ArrayPairs(st, lhs, rhs, cur, Min(i, j), pf), rhs, cur, i, j),
               lhs, cur, Min(i, j), j)

\* The array branch with the pairwise loop run from the longer length down.
ArrayBranchFromLonger(st, lhs, rhs, cur, i, j, pf) ==
  ArrayPairs(ArrayDeletes(ArrayNews(st, rhs, cur, i, j), lhs, cur, Min(i, j), j),
             lhs, rhs, cur, IF i < j THEN j ELSE i, pf)

\* The array branch: i = rhs.length - 1, j = lhs.length - 1, the two while
\* loops, then the pairwise loop from the shorter length down.
ArrayBranch(st, lhs, rhs, cur, i, j, pf) ==
  ArrayPairs(ArrayDeletes(ArrayNews(st, rhs, cur, i, j), lhs, cur, Min(i, j), j),
             lhs, rhs, cur, Min(i, j), pf)

\* The key branch: lhsKeys = Object.keys(lhs), rhsKeys = Object.keys(rhs).
KeysBranch(st, lhs, rhs, cur, pf) ==
  LhsKeysLoop(st, lhs, rhs, cur, ObjectKeys(st.h, lhs), 1, StrKeys(ObjectKeys(st.h, rhs)), pf)

\* arr.sort(...): the array is sorted in place, unless the comparator raises.
SortIn(st, arr) ==
  IF st.err THEN st
  ELSE IF SortRaises(st.h, st.h[arr.n].e) THEN Raise(st)
  ELSE [st EXCEPT !.h[arr.n].e = SortElems(st.h, st.h[arr.n].e)]
\* if (orderIndependent) { lhs.sort(...); rhs.sort(...) }
SortBoth(st, lhs, rhs) == IF st.oi THEN SortIn(SortIn(st, lhs), rhs) ELSE st

\* stack.push({ lhs, rhs })
PushPair(st, lhs, rhs) == [st EXCEPT !.stack = Append(st.stack, [lhs |-> lhs, rhs |-> rhs])]
\* The pair left on the stack when the subtree is finished.
PopPairKept(st) == st
\* stack.length = stack.length - 1
PopPair(st) == [st EXCEPT !.stack = SubSeq(st.stack, 1, Len(st.stack) - 1)]

\* The branches with the cycle branch emitting its Edited whether or not
\* the two references are identical.
CompareCycleEdits(st, lhs, rhs, currentPath, key, pf) ==
  LET lDefined == Defined(st.h, st.stack, lhs, "lhs", key)
      rDefined == Defined(st.h, st.stack, rhs, "rhs", key)
  IN
  IF ~lDefined /\ rDefined THEN Push(st, NewDiff(currentPath, rhs))
  ELSE IF ~rDefined /\ lDefined THEN Push(st, DeleteDiff(currentPath, lhs))
  ELSE IF "TypeError" \in {realTypeOf(st.h, lhs), realTypeOf(st.h, rhs)} THEN Raise(st)
  ELSE IF realTypeOf(st.h, lhs) # realTypeOf(st.h, rhs)
    THEN Push(st, EditDiff(currentPath, lhs, rhs))
  ELSE IF realTypeOf(st.h, lhs) = "date" /\ lhs.n - rhs.n # 0
    THEN Push(st, EditDiff(currentPath, lhs, rhs))
  ELSE IF TypeOf(lhs) = "object" /\ lhs # Null /\ rhs # Null THEN
    IF ~OnStack(st.stack, lhs) THEN
      PopPair(IF IsArray(st.h, lhs)
                THEN ArrayBranch(SortBoth(PushPair(st, lhs, rhs), lhs, rhs), lhs, rhs, currentPath,
                                 Len(st.h[rhs.n].e) - 1, Len(st.h[lhs.n].e) - 1, pf)
                ELSE KeysBranch(PushPair(st, lhs, rhs), lhs, rhs, currentPath, pf))
    ELSE Push(st, EditDiff(currentPath, lhs, rhs))
  ELSE IF ScalarDiffers(lhs, rhs) THEN Push(st, EditDiff(currentPath, lhs, rhs))
  ELSE st

\* The branches of deepDiff that follow the prefilter gate and the regex
\* normalisation: lhs and rhs are the normalised values.
Compare(st, lhs, rhs, currentPath, key, pf) ==
  LET lDefined == Defined(st.h, st.stack, lhs, "lhs", key)
      rDefined == Defined(st.h, st.stack, rhs, "rhs", key)
  IN
  IF ~lDefined /\ rDefined THEN Push(st, NewDiff(currentPath, rhs))
  ELSE IF ~rDefined /\ lDefined THEN Push(st, DeleteDiff(currentPath, lhs))
  ELSE IF "TypeError" \in {realTypeOf(st.h, lhs), realTypeOf(st.h, rhs)} THEN Raise(st)
  ELSE IF realTypeOf(st.h, lhs) # realTypeOf(st.h, rhs)
    THEN Push(st, EditDiff(currentPath, lhs, rhs))
  ELSE IF realTypeOf(st.h, lhs) = "date" /\ lhs.n - rhs.n # 0
    THEN Push(st, EditDiff(currentPath, lhs, rhs))
  ELSE IF TypeOf(lhs) = "object" /\ lhs # Null /\ rhs # Null THEN
    IF ~OnStack(st.stack, lhs) THEN
      PopPair(IF IsArray(st.h, lhs)
                THEN ArrayBranch(SortBoth(PushPair(st, lhs, rhs), lhs, rhs), lhs, rhs, currentPath,
                                 Len(st.h[rhs.n].e) - 1, Len(st.h[lhs.n].e) - 1, pf)
                ELSE KeysBranch(PushPair(st, lhs, rhs), lhs, rhs, currentPath, pf))
    ELSE IF ~StrictEq(lhs, rhs) THEN Push(st, EditDiff(currentPath, lhs, rhs))
    ELSE st
  ELSE IF ScalarDiffers(lhs, rhs) THEN Push(st, EditDiff(currentPath, lhs, rhs))
  ELSE st

\* deepDiff: st = [h, changes, stack, err, oi] is the state the recursion
\* shares (oi is the orderIndependent option, handed down unchanged); key =
\* Undef is the root call, made without a key.  The regex
\* test calls realTypeOf(rhs) only when lhs is a regexp.
deepDiff(st, lhs0, rhs0, path, key, pf) ==
  IF st.err THEN st
  ELSE IF key # Undef /\ key # Null /\ PrefilterSkips(pf, path, key) THEN st
  ELSE IF \/ realTypeOf(st.h, lhs0) = "TypeError"
          \/ realTypeOf(st.h, lhs0) = "regexp" /\ realTypeOf(st.h, rhs0) = "TypeError"
    THEN Raise(st)
  ELSE
    LET bothRegex == realTypeOf(st.h, lhs0) = "regexp" /\ realTypeOf(st.h, rhs0) = "regexp"
    IN Compare(st,
               IF bothRegex THEN RegexToString(lhs0) ELSE lhs0,
               IF bothRegex THEN RegexToString(rhs0) ELSE rhs0,
               IF key # Undef /\ key # Null THEN Append(path, key) ELSE path,
               key, pf)

(***************************************************************************)
(* The public differencer entry points.                                    *)
(***************************************************************************)
\* observableDiff without its observer loop: the changes of one top-level
\* deepDiff call, together with the stack it leaves behind.
RunDeepDiff(h, lhs, rhs, pf) ==
  deepDiff([h |-> h, changes |-> <<>>, stack |-> <<>>, err |-> FALSE, oi |-> FALSE],
           lhs, rhs, <<>>, Undef, pf)

\* The same with orderIndependent: true.
RunOrderIndependent(h, lhs, rhs, pf) ==
  deepDiff([h |-> h, changes |-> <<>>, stack |-> <<>>, err |-> FALSE, oi |-> TRUE],
           lhs, rhs, <<>>, Undef, pf)

observableDiff(h, lhs, rhs, pf) == RunDeepDiff(h, lhs, rhs, pf).changes

\* An accumulator argument: absent, or the caller's array with its items.
NoAccum == [given |-> FALSE, items |-> <<>>]
Accum(items) == [given |-> TRUE, items |-> items]

\* The outcome of a diff call: undefined (absent) or an array of change
\* records when it returns, err when it raises instead.
Absent == [absent |-> TRUE, items |-> <<>>, err |-> FALSE]
Changes(items) == [absent |-> FALSE, items |-> items, err |-> FALSE]
Raised == [absent |-> TRUE, items |-> <<>>, err |-> TRUE]

\* accumulateDiff returning the changes as they are, empty or not.
accumulateDiffRaw(h, lhs, rhs, pf, accum) ==
  Changes((IF accum.given THEN accum.items ELSE <<>>) \o observableDiff(h, lhs, rhs, pf))

\* return accum ? accum : changes.length ? changes : undefined; the observer
\* has pushed every change to accum by then.  run is the state in which
\* the top-level deepDiff call ended.
Returned(run, accum) ==
  IF run.err THEN Raised
  ELSE IF accum.given THEN Changes(accum.items \o run.changes)
  ELSE IF Len(run.changes) # 0 THEN Changes(run.changes)
  ELSE Absent

\* accumulateDiff, which the default export forwards to.
accumulateDiff(h, lhs, rhs, pf, accum) ==
  Returned(RunDeepDiff(h, lhs, rhs, pf), accum)

\* accumulateOrderIndependentDiff: what it returns or raises.
accumulateOrderIndependentDiff(h, lhs, rhs, pf, accum) ==
  Returned(RunOrderIndependent(h, lhs, rhs, pf), accum)

(***************************************************************************)
(* lodash.clonedeep.  The nodes reachable from the roots are copied to     *)
(* fresh addresses, sharing and cycles among them preserved.               *)
(***************************************************************************)
Remap(v, map) == IF IsRef(v) /\ v.n \in DOMAIN map THEN Ref(map[v.n]) ELSE v
RemapSeq(sq, map) == [i \in DOMAIN sq |-> Remap(sq[i], map)]
RemapNode(nd, map) == [nd EXCEPT !.e = RemapSeq(nd.e, map), !.m = RemapSeq(nd.m, map)]

\* Yields the extended heap and the map from old to new addresses.
CloneNodes(h, roots) ==
  LET R == Reachable(h, roots)
      rank(a) == Cardinality({x \in R : x < a})
      map == [a \in R |-> Len(h) + rank(a) + 1]
      nth(i) == CHOOSE a \in R : rank(a) = i - 1
  IN [h |-> h \o [i \in 1..Cardinality(R) |-> RemapNode(h[nth(i)], map)], map |-> map]

RootsOf(v) == IF IsRef(v) THEN {v.n} ELSE {}

\* No copy: the clone is the value itself.
cloneDeepAlias(h, v) == [h |-> h, v |-> v]

cloneDeep(h, v) ==
  LET c == CloneNodes(h, RootsOf(v)) IN [h |-> c.h, v |-> Remap(v, c.map)]

\* The references a change record holds, and the record with them remapped.
RECURSIVE RootsOfChange(_)
RootsOfChange(c) ==
  RootsOf(c.lhs) \cup RootsOf(c.rhs) \cup
  (IF c.item = <<>> THEN {} ELSE RootsOfChange(c.item[1]))

RECURSIVE RemapChange(_, _)
RemapChange(c, map) ==
  [c EXCEPT !.lhs = Remap(c.lhs, map), !.rhs = Remap(c.rhs, map),
            !.item = IF c.item = <<>> THEN <<>> ELSE <<RemapChange(c.item[1], map)>>]

cloneDeepChange(h, c) ==
  LET r == CloneNodes(h, RootsOfChange(c)) IN [h |-> r.h, c |-> RemapChange(c, r.map)]

(***************************************************************************)
(* The patcher.  Every operator yields an outcome [err, h, v].             *)
(***************************************************************************)
SetLength(es, n) == IF n <= Len(es) THEN SubSeq(es, 1, n) ELSE es \o Holes(n - Len(es))

\* arrayRemove(arr, from) as the patcher calls it: `to` is never passed and
\* `from` is a non-negative index.  A receiver without slice() throws.
arrayRemove(h, arr, from) ==
  IF ~IsArray(h, arr) THEN Throw(h)
  ELSE LET es == h[arr.n].e
           rest == SubSeq(es, from + 2, Len(es))
       IN Ok([h EXCEPT ![arr.n].e = SetLength(es, from) \o rest], arr)

\* The last segment of a path: change.path[change.path.length - 1].
LastKey(path) == IF path = <<>> THEN Undef ELSE path[Len(path)]

\* `if (typeof it[seg] === 'undefined') it[seg] = node`, then the read of
\* it[seg]: g is the outcome of the first read, node the fresh container.
SetFresh(fresh, it, seg) == Set(fresh.h, it, seg, fresh.v)
FillIn(g, it, seg, node) ==
  IF ~g.err /\ TypeOf(g.v) = "undefined" THEN SetFresh(Alloc(g.h, node), it, seg) ELSE g

\* it = it[path[0]] ... it[path[len - 2]], without creating anything: g is
\* the outcome of the read just made, i the number of segments consumed.
RECURSIVE DescendFrom(_, _, _)
DescendFrom(g, path, i) ==
  IF g.err \/ i >= Len(path) - 1 THEN g
  ELSE DescendFrom(Get(g.h, g.v, path[i + 1]), path, i + 1)

RECURSIVE applyArrayChange(_, _, _, _)
\* case 'A' of both switches: applyArrayChange(<the value read>, change.index, change.item)
ApplyNested(g, change) ==
  IF g.err THEN g ELSE applyArrayChange(g.h, g.v, change.index, change.item)

\* The switch of the branch `change.path && change.path.length`, on the
\* node d the for loop ended on.
ApplyInItem(d, arr, change, k) ==
  IF d.err THEN Throw(d.h)
  ELSE CASE change.kind = "A" -> ApplyNested(Get(d.h, d.v, k), change)
         [] change.kind = "D" -> Delete(d.h, d.v, k)
         [] change.kind \in {"E", "N"} -> Set(d.h, d.v, k, change.rhs)
         [] OTHER -> Ok(d.h, arr)

\* The switch of the else branch, on arr[index] itself.
ApplyAtIndex(h, arr, index, change) ==
  CASE change.kind = "A" -> ApplyNested(Get(h, arr, Num(index)), change)
    [] change.kind = "D" -> arrayRemove(h, arr, index)
    [] change.kind \in {"E", "N"} -> Set(h, arr, Num(index), change.rhs)
    [] OTHER -> Ok(h, arr)

applyArrayChange(h, arr, index, item) ==
  IF item = <<>> THEN Throw(h)
  ELSE IF item[1].path # <<>>
    THEN ApplyInItem(DescendFrom(Get(h, arr, Num(index)), item[1].path, 0),
                     arr, item[1], LastKey(item[1].path))
    ELSE ApplyAtIndex(h, arr, index, item[1])

\* A null or undefined entry of the changes array.
NullChange == BaseDiff("null", <<>>)

\* The loop `while (++i < last)` of applyChange: creates the missing
\* intermediate containers and yields the node `it` it ends on.
RECURSIVE ApplyWalk(_, _, _, _, _)
ApplyWalkFrom(s, path, i, last) ==
  IF s.err THEN s ELSE ApplyWalk(s.h, s.v, path, i, last)
ApplyWalk(h, it, path, i, last) ==
  IF i >= last THEN Ok(h, it)
  ELSE ApplyWalkFrom(FillIn(Get(h, it, path[i + 1]), it, path[i + 1],
                            IF TypeOf(path[i + 2]) = "number" THEN MkArr(<<>>)
                            ELSE MkObj(<<>>, <<>>)),
                     path, i + 1, last)

\* The switch of applyChange assigning only truthy values.
ApplySwitchTruthy(w, change, k) ==
  IF w.err THEN w
  ELSE
    CASE change.kind = "A" ->
           ApplyNested(IF change.path # <<>>
                         THEN FillIn(Get(w.h, w.v, k), w.v, k, MkArr(<<>>))
                         ELSE w,
                       change)
      [] change.kind = "D" ->
           IF change.path = <<>> THEN Throw(w.h) ELSE Delete(w.h, w.v, k)
      [] change.kind \in {"E", "N"} ->
           IF change.path = <<>> THEN Throw(w.h)
           ELSE IF Truthy(change.rhs) THEN Set(w.h, w.v, k, change.rhs)
           ELSE Ok(w.h, Undef)
      [] OTHER -> Ok(w.h, Undef)

\* The switch of applyChange, on the node w the walk ended on.
ApplySwitch(w, change, k) ==
  IF w.err THEN w
  ELSE
    CASE change.kind = "A" ->
           ApplyNested(IF change.path # <<>>
                         THEN FillIn(Get(w.h, w.v, k), w.v, k, MkArr(<<>>))
                         ELSE w,
                       change)
      [] change.kind = "D" ->
           IF change.path = <<>> THEN Throw(w.h) ELSE Delete(w.h, w.v, k)
      [] change.kind \in {"E", "N"} ->
           IF change.path = <<>> THEN Throw(w.h) ELSE Set(w.h, w.v, k, change.rhs)
      [] OTHER -> Ok(w.h, Undef)

applyChange(h, target, change) ==
  IF ~(Truthy(target) /\ change # NullChange) THEN Ok(h, Undef)
  ELSE ApplySwitch(ApplyWalk(h, target, change.path, 0,
                             IF change.path # <<>> THEN Len(change.path) - 1 ELSE 0),
                   change, LastKey(change.path))

\* The changes argument: one record, or an array of records and nulls.
\* Array.isArray(changes) ? changes : [changes]
One(c) == [isArray |-> FALSE, items |-> <<c>>]
Many(cs) == [isArray |-> TRUE, items |-> cs]
AsArray(changes) == changes.items
\* A diff result passed on as the changes argument.
ResultArg(res) == IF res.absent THEN One(NullChange) ELSE Many(res.items)

\* The body of the forEach of applyChanges: a throw ends the call.
RECURSIVE ApplyEach(_, _, _, _)
ApplyClone(changeClone, targetClone) ==
  applyChange(changeClone.h, targetClone, changeClone.c)
ApplyRest(r, targetClone, cs, i) ==
  IF r.err THEN Throw(r.h) ELSE ApplyEach(r.h, targetClone, cs, i)
ApplyEach(h, targetClone, cs, i) ==
  IF i > Len(cs) THEN Ok(h, targetClone)
  ELSE ApplyRest(ApplyClone(cloneDeepChange(h, cs[i]), targetClone), targetClone, cs, i + 1)

ApplyAll(targetClone, changes) ==
  ApplyEach(targetClone.h, targetClone.v, AsArray(changes), 1)
applyChanges(h, target, changes) == ApplyAll(cloneDeep(h, target), changes)

\* A filter argument: absent, or a callback (target, source, change) that
\* returns a truthy value for the records of the kinds it lets through.
NoFilter == [given |-> FALSE, kinds |-> {}]
Filter(kinds) == [given |-> TRUE, kinds |-> kinds]
FilterPasses(filter, change) == ~filter.given \/ change.kind \in filter.kinds

\* onChange: if (!filter || filter(target, source, change)) applyChange(target, change)
OnChange(h, target, filter, change) ==
  IF FilterPasses(filter, change) THEN applyChange(h, target, change) ELSE Ok(h, Undef)

\* The observer loop of observableDiff, run once deepDiff has returned the
\* whole list of changes: for (const change of changes) observer(change).
RECURSIVE Observe(_, _, _, _, _)
ObserveRest(r, target, filter, changes, i) ==
  IF r.err THEN Throw(r.h) ELSE Observe(r.h, target, filter, changes, i)
Observe(h, target, filter, changes, i) ==
  IF i > Len(changes) THEN Ok(h, Undef)
  ELSE ObserveRest(OnChange(h, target, filter, changes[i]), target, filter, changes, i + 1)
Observed(run, target, filter) ==
  IF run.err THEN Throw(run.h) ELSE Observe(run.h, target, filter, run.changes, 1)

\* applyDiff({ target, source, filter })
applyDiff(h, target, source, filter) ==
  IF Truthy(target) /\ Truthy(source)
    THEN Observed(RunDeepDiff(h, target, source, NoPrefilter), target, filter)
    ELSE Ok(h, Undef)

RECURSIVE revertArrayChange(_, _, _, _)
RevertNested(g, change) ==
  IF g.err THEN g ELSE revertArrayChange(g.h, g.v, change.index, change.item)

RevertInItem(d, arr, change, k) ==
  IF d.err THEN Throw(d.h)
  ELSE CASE change.kind = "A" -> RevertNested(Get(d.h, d.v, k), change)
         [] change.kind \in {"D", "E"} -> Set(d.h, d.v, k, change.lhs)
         [] change.kind = "N" -> Delete(d.h, d.v, k)
         [] OTHER -> Ok(d.h, arr)

RevertAtIndex(h, arr, index, change) ==
  CASE change.kind = "A" -> RevertNested(Get(h, arr, Num(index)), change)
    [] change.kind \in {"D", "E"} -> Set(h, arr, Num(index), change.lhs)
    [] change.kind = "N" -> arrayRemove(h, arr, index)
    [] OTHER -> Ok(h, arr)

revertArrayChange(h, arr, index, item) ==
  IF item = <<>> THEN Throw(h)
  ELSE IF item[1].path # <<>>
    THEN RevertInItem(DescendFrom(Get(h, arr, Num(index)), item[1].path, 0),
                      arr, item[1], LastKey(item[1].path))
    ELSE RevertAtIndex(h, arr, index, item[1])

\* The for loop of revertChange: missing intermediates are always created
\* as plain objects.
RECURSIVE RevertWalk(_, _, _, _)
RevertWalkFrom(s, path, i) ==
  IF s.err THEN s ELSE RevertWalk(s.h, s.v, path, i)
RevertWalk(h, target, path, i) ==
  IF i >= Len(path) - 1 THEN Ok(h, target)
  ELSE RevertWalkFrom(FillIn(Get(h, target, path[i + 1]), target, path[i + 1],
                             MkObj(<<>>, <<>>)),
                      path, i + 1)

\* The switch of revertChange, on the node w the loop ended on.
RevertSwitch(w, change, k) ==
  IF w.err THEN w
  ELSE
    CASE change.kind = "A" -> RevertNested(Get(w.h, w.v, k), change)
      [] change.kind \in {"D", "E"} -> Set(w.h, w.v, k, change.lhs)
      [] change.kind = "N" -> Delete(w.h, w.v, k)
      [] OTHER -> Ok(w.h, Undef)

revertChange(h, target, change) ==
  IF ~(Truthy(target) /\ change # NullChange) THEN Ok(h, Undef)
  ELSE IF change.path = <<>> THEN Throw(h)
  ELSE RevertSwitch(RevertWalk(h, target, change.path, 0), change, LastKey(change.path))

\* The body of the forEach of revertChanges.
RECURSIVE RevertEach(_, _, _, _)
RevertClone(changeClone, targetClone) ==
  revertChange(changeClone.h, targetClone, changeClone.c)
RevertRest(r, targetClone, cs, i) ==
  IF r.err THEN Throw(r.h) ELSE RevertEach(r.h, targetClone, cs, i)
\* The forEach run from the last record to the first.
RevertEachReversed(h, targetClone, cs, i) ==
  IF i > Len(cs) THEN Ok(h, targetClone)
  ELSE RevertRest(RevertClone(cloneDeepChange(h, cs[Len(cs) - i + 1]), targetClone),
                  targetClone, cs, i + 1)

RevertEach(h, targetClone, cs, i) ==
  IF i > Len(cs) THEN Ok(h, targetClone)
  ELSE RevertRest(RevertClone(cloneDeepChange(h, cs[i]), targetClone), targetClone, cs, i + 1)

RevertAll(targetClone, changes) ==
  RevertEach(targetClone.h, targetClone.v, AsArray(changes), 1)
revertChanges(h, target, changes) == RevertAll(cloneDeep(h, target), changes)

(***************************************************************************)
(* Deep equality of two acyclic values, each read in its own heap: the     *)
(* yardstick of the round-trip and non-mutation laws.  Objects are equal   *)
(* when they own the same keys (in any order) with deep-equal values;      *)
(* arrays when they have the same length and deep-equal slots.             *)
(***************************************************************************)
RECURSIVE DeepEqual(_, _, _, _)
DeepEqual(h1, v1, h2, v2) ==
  IF IsRef(v1) /\ IsRef(v2) THEN
    LET n1 == h1[v1.n]
        n2 == h2[v2.n]
    IN /\ n1.arr = n2.arr
       /\ Len(n1.e) = Len(n2.e)
       /\ \A i \in 1..Len(n1.e) : DeepEqual(h1, n1.e[i], h2, n2.e[i])
       /\ Range(n1.k) = Range(n2.k)
       /\ \A i \in 1..Len(n1.k) :
            DeepEqual(h1, n1.m[i], h2, n2.m[IndexOf(n2.k, n1.k[i])])
  ELSE v1 = v2

RECURSIVE DeepEqualChange(_, _, _, _)
DeepEqualChange(h1, c1, h2, c2) ==
  /\ c1.kind = c2.kind /\ c1.path = c2.path /\ c1.index = c2.index
  /\ DeepEqual(h1, c1.lhs, h2, c2.lhs)
  /\ DeepEqual(h1, c1.rhs, h2, c2.rhs)
  /\ Len(c1.item) = Len(c2.item)
  /\ (c1.item # <<>> => DeepEqualChange(h1, c1.item[1], h2, c2.item[1]))

(***************************************************************************)
(* The inputs: the values, prefilters, accumulators and hand-written       *)
(* change records a caller may hold.                                       *)
(***************************************************************************)
Seqs(S, n) == UNION {[1..m -> S] : m \in 0..n}

Nums == {Num(i) : i \in 1..MaxNum}
\* Scalars of every kind the type oracle distinguishes, falsy ones included.
Scalars ==
  Nums \cup {Undef, Null, NaN, Num(0), Str("x"), Str(""), Bool(TRUE), Bool(FALSE),
             Date(1), Date(2), Regexp("/a/"), Regexp("/a/i"), MathV}
ElemLeaves == {Lit(Num(1)), Lit(Num(MaxNum))}
PropLeaves == {Lit(Num(1)), Lit(Undef), Lit(NaN)}
EmptyObj == ObjLit(<<>>, <<>>)
EmptyArr == ArrLit(<<>>)

ArrLits ==
  {ArrLit(xs) : xs \in Seqs(ElemLeaves, MaxLen)}
  \cup {ArrLit(<<Lit(Undef)>>), ArrLit(<<Lit(Num(1)), Lit(Undef)>>), ArrLit(<<Lit(NaN), Lit(Num(1))>>)}
ObjLits ==
  {EmptyObj}
  \cup {ObjLit(<<k>>, <<x>>) : k \in {"a", "b", ""}, x \in PropLeaves}
  \cup {ObjLit(ks, <<x, y>>) : ks \in {<<"a", "b">>, <<"b", "a">>}, x \in PropLeaves, y \in PropLeaves}
Parts == {EmptyObj, ObjLit(<<"a">>, <<Lit(Num(1))>>), EmptyArr, ArrLit(<<Lit(Num(1))>>)}
Nested ==
  {ObjLit(<<"a">>, <<x>>) : x \in ArrLits \cup Parts \cup {ObjLit(<<"a">>, <<Lit(Undef)>>)}}
  \cup {ArrLit(<<x>>) : x \in Parts}
  \cup {ArrLit(<<x, y>>) : x \in Parts, y \in Parts}
Regexes == {ObjLit(<<"a">>, <<Lit(Regexp(r))>>) : r \in {"/a/", "/a/i"}}
Universe == {Lit(v) : v \in Scalars} \cup ArrLits \cup ObjLits \cup Nested \cup Regexes

\* Values over which prefilters and accumulators are exercised.
PfUniverse ==
  {ArrLit(<<Lit(Num(1))>>), ArrLit(<<Lit(Num(1)), Lit(Num(MaxNum))>>),
   ArrLit(<<Lit(Num(MaxNum)), Lit(Num(1)), Lit(Num(1))>>),
   ObjLit(<<"a">>, <<Lit(Num(1))>>), ObjLit(<<"a", "b">>, <<Lit(Num(MaxNum)), Lit(Num(1))>>),
   ObjLit(<<"b">>, <<Lit(Undef)>>),
   ObjLit(<<"a">>, <<ArrLit(<<Lit(Num(1))>>)>>),
   ObjLit(<<"a">>, <<ArrLit(<<Lit(Num(MaxNum)), Lit(Num(1))>>)>>),
   ObjLit(<<"a", "b">>, <<ObjLit(<<"a">>, <<Lit(Num(1))>>), Lit(Num(1))>>),
   ObjLit(<<"a">>, <<ObjLit(<<"a", "b">>, <<Lit(Num(MaxNum)), Lit(Num(1))>>)>>),
   ArrLit(<<ObjLit(<<"a">>, <<Lit(Num(1))>>)>>),
   ArrLit(<<ObjLit(<<"a">>, <<Lit(Num(MaxNum))>>), ObjLit(<<"a">>, <<Lit(Num(1))>>)>>),
   Lit(Num(1)), EmptyObj}

KeyA == Str("a")
KeyB == Str("b")
VetoLocs ==
  {<<KeyA>>, <<KeyB>>, <<Num(0)>>, <<Num(1)>>, <<Num(2)>>, <<KeyA, Num(0)>>, <<KeyA, Num(1)>>,
   <<KeyA, KeyA>>, <<Num(0), KeyA>>}
\* Prefilters: one that never vetoes, those vetoing one location, and the
\* one of the tests, which vetoes a key name wherever it occurs.
Prefilters ==
  {Prefilter({})} \cup {Prefilter({loc}) : loc \in VetoLocs}
  \cup {Prefilter({<<KeyA>>, <<KeyA, KeyA>>, <<Num(0), KeyA>>, <<Num(1), KeyA>>})}

Accums == {Accum(<<>>), Accum(<<EditDiff(<<KeyB>>, Num(1), Num(2))>>)}

\* Hand-written change records.  A crafted record carries literals, which
\* EvalChange builds on the heap.
CraftPaths == {<<>>, <<KeyA>>, <<KeyA, KeyB>>, <<KeyA, Num(0)>>, <<Num(0)>>}
CraftVals == {Lit(Num(1)), Lit(Num(0)), EmptyObj, ArrLit(<<Lit(Num(1))>>)}
CraftPlain ==
  {EditDiff(p, x, y) : p \in CraftPaths, x \in {Lit(Num(1))}, y \in CraftVals}
  \cup {NewDiff(p, y) : p \in CraftPaths, y \in CraftVals}
  \cup {DeleteDiff(p, x) : p \in CraftPaths, x \in CraftVals}
CraftItems ==
  {NewDiff(<<>>, y) : y \in {Lit(Num(1)), EmptyObj}}
  \cup {DeleteDiff(<<>>, Lit(Num(1))), EditDiff(<<>>, Lit(Num(1)), Lit(Num(MaxNum))),
        NewDiff(<<KeyA>>, Lit(Num(1)))}
CraftArray ==
  {ArrayDiff(p, i, it) : p \in {<<>>, <<KeyA>>}, i \in 0..MaxLen, it \in CraftItems}
CraftFirst ==
  {NullChange, NewDiff(<<KeyA>>, EmptyObj), NewDiff(<<KeyA>>, ArrLit(<<Lit(Num(1))>>)),
   EditDiff(<<KeyB>>, Lit(Num(1)), EmptyObj)}
CraftSecond ==
  {NewDiff(<<KeyA, KeyB>>, Lit(Num(1))), NewDiff(<<KeyB, KeyA>>, Lit(Num(1))),
   DeleteDiff(<<KeyA, Num(0)>>, Lit(Num(1))),
   ArrayDiff(<<KeyA>>, 1, NewDiff(<<>>, EmptyObj)),
   ArrayDiff(<<KeyA>>, 0, DeleteDiff(<<>>, Lit(Num(1))))}
Crafted ==
  {One(c) : c \in CraftPlain \cup CraftArray \cup {NullChange}}
  \cup {Many(<<c, d>>) : c \in CraftFirst, d \in CraftSecond}
CraftTargets ==
  {EmptyObj, ObjLit(<<"a">>, <<Lit(Num(1))>>), ObjLit(<<"a">>, <<ArrLit(<<Lit(Num(1)), Lit(Num(MaxNum))>>)>>),
   ObjLit(<<"a">>, <<ObjLit(<<"b">>, <<Lit(Num(1))>>)>>),
   ArrLit(<<Lit(Num(1)), Lit(Num(MaxNum))>>), ArrLit(<<EmptyObj>>), Lit(Num(1)), Lit(Null)}

\* Values for which the differencer must not raise: null and undefined,
\* objects without a callable toString, and the containers from which the
\* cyclic values are tied.
Unprintable ==
  {BareLit(<<>>, <<>>), BareLit(<<"a">>, <<Lit(Undef)>>), BareLit(<<"a">>, <<EmptyObj>>),
   ObjLit(<<"toString">>, <<Lit(Bool(TRUE))>>),
   ObjLit(<<"a">>, <<ObjLit(<<"toString">>, <<Lit(Bool(TRUE))>>)>>)}
Knotted ==
  {EmptyObj, EmptyArr, ObjLit(<<"a">>, <<EmptyObj>>), ObjLit(<<"a">>, <<EmptyArr>>),
   ObjLit(<<"b", "a">>, <<Lit(Num(1)), EmptyObj>>), ArrLit(<<EmptyArr>>), ArrLit(<<EmptyObj>>),
   ArrLit(<<EmptyObj, Lit(Num(1))>>)}
TotalUniverse ==
  {Lit(v) : v \in {Null, Undef, Num(1), Str("x"), Regexp("/a/"), Date(1)}}
  \cup {ObjLit(<<"a">>, <<Lit(Undef)>>), ObjLit(<<"a">>, <<Lit(Str("x"))>>)}
  \cup Unprintable \cup Knotted
Knots == {"none", "self", "deep"}
Shares == {"none", "alias", "inside"}

\* The slot through which a container is tied: v.a, or v[0] for an array.
Slot(hp, v) == IF IsArray(hp, v) THEN Num(0) ELSE KeyA
\* The heap after `v.a = v` ("self") or `v.a.a = v` ("deep"); a value that
\* is no container is left as it is.
TieTo(hp, from, to) == IF IsRef(from) THEN Set(hp, from, Slot(hp, from), to).h ELSE hp
Tie(hp, v, knot) ==
  CASE knot = "self" -> TieTo(hp, v, v)
    [] knot = "deep" /\ IsRef(v) -> TieTo(hp, Get(hp, v, Slot(hp, v)).v, v)
    [] OTHER -> hp

\* The heap after `v.b = v.a` (`v[1] = v[0]` for an array): one value held
\* under two sibling keys.
Twin(hp, v, twin) ==
  IF twin /\ IsRef(v)
    THEN Set(hp, v, IF IsArray(hp, v) THEN Num(1) ELSE KeyB, Get(hp, v, Slot(hp, v)).v).h
    ELSE hp

\* Values for the comparison stack: containers one and two levels deep,
\* to be tied into cycles or given a twin, and a scalar.
StackUniverse ==
  {EmptyObj, ObjLit(<<"a">>, <<EmptyObj>>), ObjLit(<<"a">>, <<EmptyArr>>),
   ObjLit(<<"a">>, <<ObjLit(<<"a">>, <<Lit(Num(1))>>)>>),
   ObjLit(<<"a">>, <<ObjLit(<<"a", "b">>, <<Lit(Num(MaxNum)), Lit(Num(1))>>)>>),
   ObjLit(<<"a">>, <<ArrLit(<<Lit(Num(1)), Lit(Num(MaxNum))>>)>>),
   ArrLit(<<EmptyObj>>), ArrLit(<<ObjLit(<<"a">>, <<Lit(Num(1))>>), Lit(Num(1))>>),
   ArrLit(<<ArrLit(<<Lit(Num(1))>>)>>), Lit(Num(1)), Lit(Undef)}
StackPrefilters == {NoPrefilter, Prefilter({<<KeyA>>}), Prefilter({<<KeyA, KeyA>>}),
                    Prefilter({<<KeyB>>}), Prefilter({<<Num(0)>>})}

\* Values whose hashes are compared: scalars, arrays and objects in every
\* order of their elements and keys, alone and nested in one another.
HashLeaves == {Lit(Num(1)), Lit(Num(MaxNum)), Lit(Str("x"))}
HashParts ==
  {ArrLit(<<Lit(Num(1)), Lit(Str("x"))>>), ArrLit(<<Lit(Str("x")), Lit(Num(1))>>),
   ObjLit(<<"a", "b">>, <<Lit(Num(1)), Lit(Num(MaxNum))>>),
   ObjLit(<<"b", "a">>, <<Lit(Num(MaxNum)), Lit(Num(1))>>)}
HashDeep ==
  {ObjLit(<<"a">>, <<ArrLit(<<x, y>>)>>) : x \in HashParts, y \in {Lit(Bool(TRUE))}}
  \cup {ObjLit(<<"a">>, <<ArrLit(<<y, x>>)>>) : x \in HashParts, y \in {Lit(Bool(TRUE))}}
HashUniverse ==
  {Lit(v) : v \in {Undef, Null, Num(0), NaN, Regexp("/a/"), MathV}}
  \cup {ArrLit(xs) : xs \in Seqs(HashLeaves, MaxLen)}
  \cup {EmptyObj}
  \cup {ObjLit(ks, <<x, y>>) : ks \in {<<"a", "b">>, <<"b", "a">>}, x \in HashLeaves, y \in HashLeaves}
  \cup {ArrLit(<<x, y>>) : x \in HashParts, y \in HashParts}
  \cup {ObjLit(ks, <<x, y>>) : ks \in {<<"a", "b">>, <<"b", "a">>}, x \in HashParts, y \in HashParts}
  \cup {ArrLit(<<x, Lit(Num(1))>>) : x \in HashDeep}
  \cup {ArrLit(<<Lit(Num(1)), x>>) : x \in HashDeep}

\* Values compared without regard to order: arrays of primitives, two of
\* them strings whose hashes collide, arrays inside objects and arrays, and
\* the containers from which cyclic elements are tied.
OrderLeaves == {Lit(Num(1)), Lit(Num(MaxNum)), Lit(Str("Aa")), Lit(Str("BB"))}
OrderUniverse ==
  {ArrLit(xs) : xs \in Seqs(OrderLeaves, MaxLen)}
  \cup {ArrLit(<<Lit(Undef), Lit(Num(1))>>), ArrLit(<<Lit(Num(1)), Lit(Undef)>>),
        ArrLit(<<Lit(NaN), Lit(Num(1))>>), ArrLit(<<Lit(Num(1)), Lit(NaN)>>)}
  \cup {ObjLit(<<"a">>, <<ArrLit(<<x, y>>)>>) : x \in {Lit(Num(1)), Lit(Num(MaxNum))},
                                                   y \in {Lit(Num(1)), Lit(Num(MaxNum))}}
  \cup {ArrLit(<<EmptyObj, Lit(Num(1))>>), ArrLit(<<Lit(Num(1)), EmptyObj>>),
        ArrLit(<<EmptyArr, ArrLit(<<Lit(Num(1))>>)>>), ArrLit(<<EmptyObj>>)}

\* Builds the literals of a crafted record, and of each record of a list.
RECURSIVE EvalChange(_, _)
EvalChange(h0, c) ==
  IF c = NullChange THEN [h |-> h0, c |-> c]
  ELSE IF c.kind = "A" THEN
    LET r == EvalChange(h0, c.item[1]) IN [h |-> r.h, c |-> [c EXCEPT !.item = <<r.c>>]]
  ELSE
    LET l == Eval(h0, c.lhs)
        r == Eval(l.h, c.rhs)
    IN [h |-> r.h, c |-> [c EXCEPT !.lhs = l.v, !.rhs = r.v]]

RECURSIVE EvalChanges(_, _)
EvalChanges(h0, items) ==
  IF items = <<>> THEN [h |-> h0, items |-> <<>>]
  ELSE LET r == EvalChanges(h0, SubSeq(items, 1, Len(items) - 1))
           x == EvalChange(r.h, items[Len(items)])
       IN [h |-> x.h, items |-> Append(r.items, x.c)]

VARIABLES h, a, b, pf, accum, filter, res, cs, crafted, pc, op, tgt, out

vars == <<h, a, b, pf, accum, filter, res, cs, crafted, pc, op, tgt, out>>

NoOut == [err |-> FALSE, v |-> Undef]

Fresh ==
  /\ res = Absent /\ filter = NoFilter
  /\ pc = "start" /\ op = "none" /\ tgt = "none" /\ out = NoOut

\* The caller evaluates two literals.
InitPair ==
  /\ \E la \in Universe, lb \in Universe :
       LET ra == Eval(<<>>, la)
           rb == Eval(ra.h, lb)
       IN h = rb.h /\ a = ra.v /\ b = rb.v
  /\ pf = NoPrefilter /\ accum = NoAccum
  /\ cs = One(NullChange) /\ crafted = FALSE

\* The caller evaluates one literal and holds it under two names.
InitAlias ==
  /\ \E la \in Universe :
       LET ra == Eval(<<>>, la) IN h = ra.h /\ a = ra.v /\ b = ra.v
  /\ pf = NoPrefilter /\ accum = NoAccum
  /\ cs = One(NullChange) /\ crafted = FALSE

\* The caller also supplies a prefilter, or an accumulator.
InitOptions ==
  /\ \E la \in PfUniverse, lb \in PfUniverse :
       LET ra == Eval(<<>>, la)
           rb == Eval(ra.h, lb)
       IN h = rb.h /\ a = ra.v /\ b = rb.v
  /\ \/ pf \in Prefilters /\ accum = NoAccum
     \/ pf \in {NoPrefilter, Prefilter({<<KeyA>>})} /\ accum \in Accums
  /\ cs = One(NullChange) /\ crafted = FALSE

\* The caller holds a target and change records written by hand.
InitCrafted ==
  /\ \E la \in CraftTargets, arg \in Crafted :
       LET ra == Eval(<<>>, la)
           rc == EvalChanges(ra.h, arg.items)
           rb == Eval(rc.h, la)
       IN h = rb.h /\ a = ra.v /\ b = rb.v /\ cs = [arg EXCEPT !.items = rc.items]
  /\ pf = NoPrefilter /\ accum = NoAccum
  /\ crafted = TRUE

Init == Fresh /\ (InitPair \/ InitAlias \/ InitOptions \/ InitCrafted)

\* The caller builds two values, ties a knot in each or not, and lets the
\* second one be, or hold, the first one or not.
TiedPair(ra, rb, ka, kb, share) ==
  /\ a = ra.v
  /\ b = IF share = "alias" THEN ra.v ELSE rb.v
  /\ h = Tie(Tie(IF share = "inside" THEN TieTo(rb.h, rb.v, ra.v) ELSE rb.h, ra.v, ka),
             rb.v, kb)
EvalPair(ra, lb, ka, kb, share) == TiedPair(ra, Eval(ra.h, lb), ka, kb, share)
InitTotal ==
  /\ Fresh
  /\ \E la \in TotalUniverse, lb \in TotalUniverse, ka \in Knots, kb \in Knots, share \in Shares :
       EvalPair(Eval(<<>>, la), lb, ka, kb, share)
  /\ pf = NoPrefilter /\ accum = NoAccum
  /\ cs = One(NullChange) /\ crafted = FALSE

\* The caller builds two values, gives each a twin property or ties a
\* knot in it or neither, and supplies a prefilter or not.
TwinPair(ra, rb, ta, tb, ka, kb) ==
  /\ a = ra.v /\ b = rb.v
  /\ h = Tie(Tie(Twin(Twin(rb.h, ra.v, ta), rb.v, tb), ra.v, ka), rb.v, kb)
EvalTwins(ra, lb, ta, tb, ka, kb) == TwinPair(ra, Eval(ra.h, lb), ta, tb, ka, kb)
InitStack ==
  /\ Fresh
  /\ \E la \in StackUniverse, lb \in StackUniverse, ta \in BOOLEAN, tb \in BOOLEAN,
        ka \in {"none", "self"}, kb \in {"none", "self"} :
       EvalTwins(Eval(<<>>, la), lb, ta, tb, ka, kb)
  /\ pf \in StackPrefilters /\ accum = NoAccum
  /\ cs = One(NullChange) /\ crafted = FALSE

\* differences = diff(a, b, prefilter, accum)
Diff ==
  /\ pc = "start" /\ ~crafted
  /\ res' = accumulateDiff(h, a, b, pf, accum)
  /\ cs' = ResultArg(res')
  /\ pc' = "diffed" /\ op' = "diff"
  /\ UNCHANGED <<h, a, b, pf, accum, filter, crafted, tgt, out>>

Target(t) == IF t = "a" THEN a ELSE b

\* The patcher call returns r.v or throws, having left the heap r.h.
Return(r, t) ==
  /\ h' = r.h
  /\ out' = [err |-> r.err, v |-> r.v]
  /\ tgt' = t

\* result = applyChanges(target, changes)
ApplyChanges ==
  /\ pc = "diffed" \/ (pc = "start" /\ crafted)
  /\ \E t \in {"a", "b"} : Return(applyChanges(h, Target(t), cs), t)
  /\ pc' = "patched" /\ op' = "apply"
  /\ UNCHANGED <<a, b, pf, accum, filter, res, cs, crafted>>

\* result = revertChanges(target, changes)
RevertChanges ==
  /\ pc = "diffed" \/ (pc = "start" /\ crafted)
  /\ \E t \in {"a", "b"} : Return(revertChanges(h, Target(t), cs), t)
  /\ pc' = "patched" /\ op' = "revert"
  /\ UNCHANGED <<a, b, pf, accum, filter, res, cs, crafted>>

Next == Diff \/ ApplyChanges \/ RevertChanges

Spec == Init /\ [][Next]_vars

\* The default diff alone, on the inputs of InitTotal.
NextTotal == Diff
SpecTotal == InitTotal /\ [][NextTotal]_vars

\* The caller builds two values, ties a knot in each or not, and compares
\* them with or without regard to order.
InitOrder ==
  /\ Fresh
  /\ \E la \in OrderUniverse, lb \in OrderUniverse, ka \in Knots, kb \in Knots :
       EvalPair(Eval(<<>>, la), lb, ka, kb, "none")
  /\ pf = NoPrefilter /\ accum = NoAccum
  /\ cs = One(NullChange) /\ crafted = FALSE

\* The call has ended in the state run of the comparison: the heap is as
\* the comparison left it.
Ended(run) ==
  /\ h' = run.h
  /\ res' = Returned(run, accum)
  /\ cs' = ResultArg(Returned(run, accum))

\* differences = orderIndependentDiff(a, b, prefilter, accum)
OrderIndependentDiff ==
  /\ pc = "start" /\ ~crafted
  /\ Ended(RunOrderIndependent(h, a, b, pf))
  /\ pc' = "diffed" /\ op' = "orderIndependentDiff"
  /\ UNCHANGED <<a, b, pf, accum, filter, crafted, tgt, out>>

\* The default diff alone, on the inputs of InitStack.
NextStack == Diff
SpecStack == InitStack /\ [][NextStack]_vars

\* The differencer in both modes.
NextOrder == Diff \/ OrderIndependentDiff
SpecOrder == InitOrder /\ [][NextOrder]_vars

\* The filters a caller passes to applyDiff.
Filters == {NoFilter, Filter({}), Filter({"N", "A"}), Filter({"E", "D"})}

\* applyDiff({ target: a, source: b, filter })
ApplyDiff ==
  /\ pc = "start" /\ ~crafted
  /\ \E f \in Filters : filter' = f /\ Return(applyDiff(h, a, b, f), "a")
  /\ pc' = "applied" /\ op' = "applyDiff"
  /\ UNCHANGED <<a, b, pf, accum, res, cs, crafted>>

\* applyDiff alone, on two literals.
InitApplyDiff == Fresh /\ InitPair
NextApplyDiff == ApplyDiff
SpecApplyDiff == InitApplyDiff /\ [][NextApplyDiff]_vars

\* The caller evaluates two literals to take the hash of each.
InitHash ==
  /\ Fresh
  /\ \E la \in HashUniverse, lb \in HashUniverse :
       LET ra == Eval(<<>>, la)
           rb == Eval(ra.h, lb)
       IN h = rb.h /\ a = ra.v /\ b = rb.v
  /\ pf = NoPrefilter /\ accum = NoAccum
  /\ cs = One(NullChange) /\ crafted = FALSE

\* The two hashes a caller holds after hashing a and b.
Hashes(x, y) == [t |-> "hashes", x |-> x, y |-> y]

\* x = getOrderIndependentHash(a); y = getOrderIndependentHash(b)
Hash ==
  /\ pc = "start"
  /\ out' = [err |-> FALSE, v |-> Hashes(getOrderIndependentHash(h, a), getOrderIndependentHash(h, b))]
  /\ pc' = "hashed" /\ op' = "hash"
  /\ UNCHANGED <<h, a, b, pf, accum, filter, res, cs, crafted, tgt>>

\* The hash function alone.
NextHash == Hash
SpecHash == InitHash /\ [][NextHash]_vars

(***************************************************************************)
(* Vocabulary of the properties.                                           *)
(***************************************************************************)
\* The location a record addresses: its path, followed by the index for an
\* ArrayDiff.
Loc(c) == IF c.kind = "A" THEN Append(c.path, Num(c.index)) ELSE c.path

IsPrefix(p, q) == Len(p) <= Len(q) /\ SubSeq(q, 1, Len(p)) = p
IsProperPrefix(p, q) == IsPrefix(p, q) /\ Len(p) < Len(q)

RecordsAt(items, p) == SelectSeq(items, LAMBDA c : Loc(c) = p)
RecordsBeneath(items, p) == SelectSeq(items, LAMBDA c : IsProperPrefix(p, Loc(c)))

RECURSIVE IsSubseq(_, _)
IsSubseq(s1, s2) ==
  IF s1 = <<>> THEN TRUE
  ELSE IF s2 = <<>> THEN FALSE
  ELSE IF s1[1] = s2[1] THEN IsSubseq(Tail(s1), Tail(s2))
  ELSE IsSubseq(s1, Tail(s2))

\* The sites of a comparison of two acyclic values: every location at which
\* the two values are put side by side, with the values found there (Undef
\* for a side that has nothing there) and whether each side is defined
\* there: the root when its value is not undefined, a property when the
\* parent owns the key.  Both sides' composites are entered when they are
\* of the same kind; array slots past the shorter array are not sites.
Site(p, l, r, lo, ro) == [path |-> p, l |-> l, r |-> r, lo |-> lo, ro |-> ro]
RECURSIVE SitesFrom(_, _, _, _, _, _)
SitesFrom(hp, l, r, p, lo, ro) ==
  {Site(p, l, r, lo, ro)} \cup
  IF lo /\ ro /\ IsRef(l) /\ IsRef(r) /\ hp[l.n].arr = hp[r.n].arr THEN
    IF hp[l.n].arr
      THEN UNION {SitesFrom(hp, hp[l.n].e[i], hp[r.n].e[i], Append(p, Num(i - 1)), TRUE, TRUE) :
                    i \in 1..Min(Len(hp[l.n].e), Len(hp[r.n].e))}
      ELSE UNION {SitesFrom(hp, Get(hp, l, Str(k)).v, Get(hp, r, Str(k)).v, Append(p, Str(k)),
                            k \in Range(hp[l.n].k), k \in Range(hp[r.n].k)) :
                    k \in Range(hp[l.n].k) \cup Range(hp[r.n].k)}
  ELSE {}
Sites == SitesFrom(h, a, b, <<>>, TypeOf(a) # "undefined", TypeOf(b) # "undefined")

PlainDiffed == pc = "diffed" /\ ~pf.given /\ ~accum.given
Unfiltered == observableDiff(h, a, b, NoPrefilter)
Vetoed(c) == \E v \in pf.veto : IsPrefix(v, Loc(c))

\* C1: Round-trip (apply): applyChanges(a, diff(a, b)) returns without
\* error a value that deep-equals b, for all acyclic a and b, scalar roots
\* and roots of different kinds included.
C1_RoundTripApply ==
  (pc = "patched" /\ op = "apply" /\ tgt = "a" /\ ~crafted /\ ~pf.given /\ ~accum.given)
    => (~out.err /\ DeepEqual(h, out.v, h, b))

\* C2: Round-trip (revert): revertChanges(b, diff(a, b)) returns without
\* error a value that deep-equals a, root-level arrays of different lengths
\* and root-level scalars included.
C2_RoundTripRevert ==
  (pc = "patched" /\ op = "revert" /\ tgt = "b" /\ ~crafted /\ ~pf.given /\ ~accum.given)
    => (~out.err /\ DeepEqual(h, out.v, h, a))

\* C3: Non-mutation: whenever applyChanges or revertChanges returns or
\* raises, the caller's target and every caller-supplied change record are
\* deep-equal to what they were before the call, and the returned value
\* shares no object with the target or the change records.
PatchStep == pc # "patched" /\ pc' = "patched"
CallerRoots == RootsOf(a) \cup RootsOf(b) \cup UNION {RootsOfChange(cs.items[i]) : i \in DOMAIN cs.items}
NonMutationStep ==
  PatchStep =>
    /\ DeepEqual(h, a, h', a)
    /\ DeepEqual(h, b, h', b)
    /\ \A i \in DOMAIN cs.items : DeepEqualChange(h, cs.items[i], h', cs.items[i])
    /\ Reachable(h', RootsOf(out'.v)) \cap Reachable(h', CallerRoots) = {}
C3_NonMutation == [][NonMutationStep]_vars

\* The call of the test: two hand-written records, the second of which
\* writes inside the object the first one adds, applied without error.
C3_Witness ==
  /\ pc = "patched" /\ crafted /\ ~out.err
  /\ Len(cs.items) = 2
  /\ IsRef(cs.items[1].rhs) /\ IsProperPrefix(cs.items[1].path, cs.items[2].path)
  /\ ~DeepEqual(h, out.v, h, Target(tgt))

C5_NeverEmpty == (pc = "diffed") => (res.absent \/ Len(res.items) > 0)

\* C5 amended: without an accumulator the result is absent or a non-empty
\* sequence; with an accumulator the result is that accumulator, which is
\* empty exactly when it was empty and no difference was found.
C5_AbsentOrNonEmpty ==
  (pc = "diffed") =>
    IF ~accum.given THEN res.absent \/ Len(res.items) > 0
    ELSE /\ ~res.absent
         /\ IsPrefix(accum.items, res.items)
         /\ (res.items = <<>>) <=> (accum.items = <<>> /\ observableDiff(h, a, b, pf) = <<>>)

C5_Witness ==
  \/ pc = "diffed" /\ ~accum.given /\ res.absent /\ IsRef(a) /\ a # b
  \/ pc = "diffed" /\ accum.given /\ res.items = <<>>

\* C6: Presence versus value: for a key that one side's parent owns with
\* value undefined and the other side's parent does not own, diff emits
\* exactly one record at that key: Removed with oldValue undefined if only
\* the left owns it, Added with newValue undefined if only the right owns
\* it; if both own it with value undefined, no record is emitted for it.
C6_PresenceVsValue ==
  PlainDiffed =>
    \A s \in Sites :
      (s.path # <<>> /\ s.l = Undef /\ s.r = Undef) =>
        RecordsAt(res.items, s.path) =
          (IF s.lo /\ ~s.ro THEN <<DeleteDiff(s.path, Undef)>>
           ELSE IF ~s.lo /\ s.ro THEN <<NewDiff(s.path, Undef)>>
           ELSE <<>>)

\* C7: Prefilter suppression: the diff result holds no record located at or
\* beneath a location the prefilter vetoes, trailing array indices that
\* exist on one side only included.
C7_PrefilterSuppresses ==
  (pc = "diffed" /\ pf.given /\ ~accum.given) =>
    \A i \in DOMAIN res.items : ~Vetoed(res.items[i])

Kind(v) == IF IsRef(v) THEN (IF h[v.n].arr THEN "array" ELSE "object") ELSE v.t
KindMismatch(s) == s.lo /\ s.ro /\ Kind(s.l) # Kind(s.r)
C9_KindMismatch ==
  PlainDiffed =>
    \A s \in Sites :
      KindMismatch(s) =>
        /\ RecordsAt(res.items, s.path) = <<EditDiff(s.path, s.l, s.r)>>
        /\ RecordsBeneath(res.items, s.path) = <<>>

C9_Witness ==
  /\ PlainDiffed
  /\ \E s \in Sites :
       /\ KindMismatch(s) /\ s.path # <<>>
       /\ {Kind(s.l), Kind(s.r)} = {"array", "object"}
  /\ Len(res.items) > 1

Elem(v, i) == Read(h[v.n].e[i + 1])
TrailingRecords(s, m, n) ==
  IF n > m THEN [j \in 1..(n - m) |-> ArrayDiff(s.path, n - j, NewDiff(<<>>, Elem(s.r, n - j)))]
  ELSE [j \in 1..(m - n) |-> ArrayDiff(s.path, m - j, DeleteDiff(<<>>, Elem(s.l, m - j)))]
IndexUnder(c, p) == Loc(c)[Len(p) + 1]
ArrayOrder(s, m, n, recs) ==
  LET t == IF n > m THEN n - m ELSE m - n IN
  /\ Len(recs) >= t
  /\ SubSeq(recs, 1, t) = TrailingRecords(s, m, n)
  /\ \A i \in (t + 1)..Len(recs) :
       /\ IndexUnder(recs[i], s.path).t = "number"
       /\ IndexUnder(recs[i], s.path).n < Min(m, n)
       /\ i > t + 1 => IndexUnder(recs[i], s.path).n <= IndexUnder(recs[i - 1], s.path).n
Patch(o, hp, t, changes) ==
  IF o = "apply" THEN applyChanges(hp, t, changes) ELSE revertChanges(hp, t, changes)
RECURSIVE OneByOne(_, _, _, _, _)
OneByOne(o, hp, t, items, i) ==
  IF i > Len(items) THEN Patch(o, hp, t, Many(<<>>))
  ELSE LET r == Patch(o, hp, t, One(items[i])) IN
       IF r.err THEN r ELSE OneByOne(o, r.h, r.v, items, i + 1)
SameOutcome(r) == out.err = r.err /\ (~out.err => DeepEqual(h, out.v, r.h, r.v))
C13_InSequence ==
  (pc = "patched") =>
    /\ SameOutcome(OneByOne(op, h, Target(tgt), cs.items, 1))
    /\ SameOutcome(Patch(op, h, Target(tgt), Many(cs.items)))
    /\ SameOutcome(Patch(op, h, Target(tgt),
                         Many(SelectSeq(cs.items, LAMBDA c : c # NullChange))))

\* A revert of two records without error, the second of which rebuilds
\* what the first removed, so that the other order gives another value; and
\* the list begins with a record, not a null.
C13_Witness ==
  /\ pc = "patched" /\ op = "revert" /\ crafted /\ ~out.err
  /\ Len(cs.items) = 2 /\ cs.items[1] # NullChange
  /\ LET r == revertChanges(h, Target(tgt), Many(<<cs.items[2], cs.items[1]>>))
     IN ~r.err /\ ~DeepEqual(h, out.v, r.h, r.v)

\* A null entry followed by a record, applied without error.
C13_NullWitness ==
  /\ pc = "patched" /\ op = "apply" /\ crafted /\ ~out.err
  /\ Len(cs.items) = 2 /\ cs.items[1] = NullChange
  /\ ~DeepEqual(h, out.v, h, Target(tgt))

\* C14: Per-change semantics on an object node: for a single Edited, Added
\* or Removed record whose path, but for its last segment k, leads to a
\* plain object of the target, the call succeeds and the object found there
\* in the result owns k with rhs after applying N or E and with lhs after
\* reverting D or E (falsy values included), does not own k after applying
\* D or reverting N, and has every other key as the target has it.
RECURSIVE Follow(_, _, _, _)
Follow(hp, v, path, i) ==
  IF i > Len(path) - 1 THEN v
  ELSE IF ~IsRef(v) THEN Undef
  ELSE Follow(hp, Get(hp, v, path[i]).v, path, i + 1)
OnObjectNode(c) ==
  /\ c.kind \in {"E", "N", "D"} /\ c.path # <<>>
  /\ IsPlain(h, Follow(h, Target(tgt), c.path, 1))
Sets(o, c) == IF o = "apply" THEN c.kind \in {"E", "N"} ELSE c.kind \in {"E", "D"}
Written(o, c) == IF o = "apply" THEN c.rhs ELSE c.lhs
OtherKeysKept(nd, nd2, k) ==
  /\ Range(h[nd.n].k) \ {k} = Range(h[nd2.n].k) \ {k}
  /\ \A x \in Range(h[nd.n].k) \ {k} :
       DeepEqual(h, Get(h, nd, Str(x)).v, h, Get(h, nd2, Str(x)).v)
ObjectNodeEffect(o, c, nd, nd2, k) ==
  /\ IsPlain(h, nd2)
  /\ IF Sets(o, c)
       THEN HasOwn(h, nd2, k) /\ DeepEqual(h, Get(h, nd2, k).v, h, Written(o, c))
       ELSE ~HasOwn(h, nd2, k)
  /\ OtherKeysKept(nd, nd2, ToKey(k))
C14_ObjectNode ==
  (pc = "patched" /\ Len(cs.items) = 1 /\ OnObjectNode(cs.items[1])) =>
    /\ ~out.err
    /\ ObjectNodeEffect(op, cs.items[1],
                        Follow(h, Target(tgt), cs.items[1].path, 1),
                        Follow(h, out.v, cs.items[1].path, 1),
                        LastKey(cs.items[1].path))

\* An Edited to 0 applied on a key the target owns with value 1, next to
\* which nothing else changes.
C14_Witness ==
  /\ pc = "patched" /\ op = "apply" /\ crafted /\ ~out.err
  /\ Len(cs.items) = 1 /\ OnObjectNode(cs.items[1])
  /\ cs.items[1].kind = "E" /\ cs.items[1].rhs = Num(0) /\ cs.items[1].path = <<KeyA>>
  /\ Get(h, Target(tgt), KeyA).v = Num(1)
  /\ Get(h, out.v, KeyA).v = Num(0)

\* C15: Array-slot removal is splice-style: when a single record applied as
\* Removed, or reverted as Added, addresses an existing slot i of an array
\* of the target, either wrapped in an ArrayDiff of index i or directly by
\* a path ending in i, the call succeeds and the array found there in the
\* result is one element shorter, its elements before i unchanged and
\* those after i shifted down by one.
Removes(o, c) == c.kind = (IF o = "apply" THEN "D" ELSE "N")
DirectRemoval(o, c) ==
  /\ Removes(o, c) /\ c.path # <<>> /\ IsIndex(LastKey(c.path))
  /\ IsArray(h, Follow(h, Target(tgt), c.path, 1))
  /\ LastKey(c.path).n < Len(h[Follow(h, Target(tgt), c.path, 1).n].e)
WrappedRemoval(o, c) ==
  /\ c.kind = "A" /\ Removes(o, c.item[1]) /\ c.item[1].path = <<>>
  /\ IsArray(h, Follow(h, Target(tgt), Append(c.path, Undef), 1))
  /\ c.index < Len(h[Follow(h, Target(tgt), Append(c.path, Undef), 1).n].e)
Spliced(arr, arr2, i) ==
  /\ IsArray(h, arr2)
  /\ Len(h[arr2.n].e) = Len(h[arr.n].e) - 1
  /\ \A j \in 1..Len(h[arr2.n].e) :
       DeepEqual(h, h[arr2.n].e[j], h, h[arr.n].e[IF j <= i THEN j ELSE j + 1])
C15_SpliceRemoval ==
  (pc = "patched" /\ Len(cs.items) = 1) =>
    /\ DirectRemoval(op, cs.items[1]) =>
         /\ ~out.err
         /\ Spliced(Follow(h, Target(tgt), cs.items[1].path, 1),
                    Follow(h, out.v, cs.items[1].path, 1), LastKey(cs.items[1].path).n)
    /\ WrappedRemoval(op, cs.items[1]) =>
         /\ ~out.err
         /\ Spliced(Follow(h, Target(tgt), Append(cs.items[1].path, Undef), 1),
                    Follow(h, out.v, Append(cs.items[1].path, Undef), 1), cs.items[1].index)

\* C16: Intermediate containers: when a single record's path leaves the
\* target at a segment that a container of the target does not hold,
\* applyChanges and revertChanges alike succeed and create every missing
\* intermediate segment as an empty array when the segment after it is a
\* number, and as an empty object otherwise.
At(hp, v, path, n) == Follow(hp, v, SubSeq(path, 1, n + 1), 1)
Shaped(v, next) == IsRef(v) /\ (IsArray(h, v) <=> TypeOf(next) = "number")
LeavesAt(c, i) ==
  /\ IsRef(At(h, Target(tgt), c.path, i - 1))
  /\ At(h, Target(tgt), c.path, i) = Undef
C16_Intermediates ==
  (pc = "patched" /\ Len(cs.items) = 1 /\ cs.items[1] # NullChange) =>
    \A i \in 1..(Len(cs.items[1].path) - 1) :
      LeavesAt(cs.items[1], i) =>
        /\ ~out.err
        /\ \A j \in i..(Len(cs.items[1].path) - 1) :
             Shaped(At(h, out.v, cs.items[1].path, j), cs.items[1].path[j + 1])

\* C17: Invalid change: applyChanges and revertChanges given one pathless
\* Added, Removed or ArrayDiff record raise an error, whatever the target.
C17_InvalidChange ==
  (pc = "patched" /\ Len(cs.items) = 1
     /\ cs.items[1].kind \in {"N", "D", "A"} /\ cs.items[1].path = <<>>) => out.err

\* C18: Root-level Edited: a single Edited record without a path is applied
\* and reverted against the target itself without error: applyChanges
\* returns its rhs and revertChanges its lhs.
C18_RootEdited ==
  (pc = "patched" /\ Len(cs.items) = 1
     /\ cs.items[1].kind = "E" /\ cs.items[1].path = <<>>) =>
    /\ ~out.err
    /\ DeepEqual(h, out.v, h, Written(op, cs.items[1]))

\* C19: Totality of the default diff: every call diff(a, b) ends by
\* returning, not by raising: for null and undefined roots, objects
\* without a callable toString, and values holding reference cycles on the
\* left, on the right or on both sides.  The call is one step, Diff, which
\* is taken only when the recursion of deepDiff has come to its end.
C19_Total == (pc = "diffed") => ~res.err

Cyclic(v) == IsRef(v) /\ v.n \in Reachable(h, RefsOfNode(h[v.n]))
\* Two distinct cyclic values, the right one without a prototype, compared
\* without error.
C19_Witness ==
  /\ pc = "diffed" /\ ~res.err
  /\ Cyclic(a) /\ Cyclic(b) /\ a # b
  /\ h[b.n].bare
  /\ ~res.absent

(***************************************************************************)
(* C20.  The structural hash is order-independent: two values that differ  *)
(* only by a permutation of the elements of arrays and a reordering of    *)
(* the keys of objects, at any nesting depth, have the same hash.          *)
(***************************************************************************)
\* x and y are the same value up to the order of array elements and of
\* object keys.
RECURSIVE SameUpToOrder(_, _, _)
RECURSIVE Permuted(_, _, _)
Permuted(hp, es, fs) ==
  IF es = <<>> THEN fs = <<>>
  ELSE \E j \in 1..Len(fs) :
         SameUpToOrder(hp, es[1], fs[j]) /\ Permuted(hp, Tail(es), RemoveAt(fs, j))
SameUpToOrder(hp, x, y) ==
  IF ~(IsRef(x) /\ IsRef(y)) THEN x = y
  ELSE IF hp[x.n].arr \/ hp[y.n].arr
    THEN hp[x.n].arr /\ hp[y.n].arr /\ Permuted(hp, hp[x.n].e, hp[y.n].e)
  ELSE /\ Range(hp[x.n].k) = Range(hp[y.n].k)
       /\ \A i \in 1..Len(hp[x.n].k) :
            SameUpToOrder(hp, hp[x.n].m[i], hp[y.n].m[IndexOf(hp[y.n].k, hp[x.n].k[i])])

C20_OrderIndependent ==
  (pc = "hashed" /\ SameUpToOrder(h, a, b)) => out.v.x = out.v.y

\* Two hashed values, equal up to order and in different orders at the top
\* and inside a nested container.
C20_Witness ==
  /\ pc = "hashed" /\ SameUpToOrder(h, a, b)
  /\ IsArray(h, a) /\ Len(h[a.n].e) = 2
  /\ IsPlain(h, h[a.n].e[1]) /\ IsPlain(h, h[b.n].e[2])
  /\ h[h[a.n].e[1].n].k # h[h[b.n].e[2].n].k
  /\ out.v.x = out.v.y

(***************************************************************************)
(* C21.  Order-independent diff decides multiset equality of arrays of     *)
(* primitives: for two arrays of primitive values the order-independent    *)
(* diff is absent if and only if the two arrays hold the same elements     *)
(* with the same multiplicities, in any order.                             *)
(***************************************************************************)
OrderDiffed == pc = "diffed" /\ op = "orderIndependentDiff"
Primitives(v) == IsArray(h, v) /\ \A i \in DOMAIN h[v.n].e : ~IsRef(h[v.n].e[i])
Count(es, x) == Len(SelectSeq(es, LAMBDA y : y = x))
SameMultiset(es, fs) == \A x \in Range(es) \cup Range(fs) : Count(es, x) = Count(fs, x)
C21_MultisetEquality ==
  (OrderDiffed /\ Primitives(a) /\ Primitives(b))
    => (res.absent <=> SameMultiset(h[a.n].e, h[b.n].e))

(***************************************************************************)
(* C22.  diff never modifies its inputs, in positional and in              *)
(* order-independent mode: after the call every object and array reachable *)
(* from left and right is as it was before, every array with the same      *)
(* elements in the same order.                                             *)
(***************************************************************************)
DiffStep == pc = "start" /\ pc' = "diffed"
InputsKept == \A n \in Reachable(h, RootsOf(a) \cup RootsOf(b)) : h'[n] = h[n]
C22_InputsKept == [][DiffStep => InputsKept]_vars

(***************************************************************************)
(* C23.  applyDiff({target, source, filter}) mutates target in place and   *)
(* makes no copy: the final state of target is the result of applying to   *)
(* the initial target, in emission order, exactly those records of         *)
(* diff(initial target, source) for which filter is absent or returns a    *)
(* truthy value; with no filter and object roots, target deep-equals       *)
(* source afterwards.                                                      *)
(***************************************************************************)
ApplyDiffStep == pc = "start" /\ pc' = "applied"
\* The records of diff(a, b) that the filter lets through, and the outcome
\* of applying them one after the other to the target itself.
LetThrough == SelectSeq(observableDiff(h, a, b, NoPrefilter), LAMBDA c : FilterPasses(filter', c))
InTurn == ApplyEach(h, a, LetThrough, 1)
ObjectRoots == IsPlain(h, a) /\ IsPlain(h, b)
AppliedInPlace ==
  (Truthy(a) /\ Truthy(b) /\ ~InTurn.err) => (~out'.err /\ DeepEqual(h', a, InTurn.h, a))
BecomesSource ==
  (~filter'.given /\ ObjectRoots) => (~out'.err /\ DeepEqual(h', a, h', b))
C23_ApplyDiff == [][ApplyDiffStep => (AppliedInPlace /\ BecomesSource)]_vars

(***************************************************************************)
(* C24.  Cycle guard: where both sides are non-null composites of the same *)
(* kind and the left value is identical to the left member of a pair on    *)
(* the comparison stack, diff emits exactly one Edited at that location if *)
(* left and right are not the same reference, nothing if they are, and in  *)
(* both cases does not descend: no record lies beneath the location.       *)
(***************************************************************************)
\* The locations at which a left value met again one of its ancestors:
\* anc holds the left composites entered on the way from the root.
SameKind(hp, l, r) == IsRef(l) /\ IsRef(r) /\ hp[l.n].arr = hp[r.n].arr
Knot(p, l, r) == [path |-> p, l |-> l, r |-> r]
RECURSIVE KnotsFrom(_, _, _, _, _)
KnotsFrom(hp, l, r, p, anc) ==
  IF ~SameKind(hp, l, r) THEN {}
  ELSE IF l.n \in anc THEN {Knot(p, l, r)}
  ELSE IF hp[l.n].arr
    THEN UNION {KnotsFrom(hp, hp[l.n].e[i], hp[r.n].e[i], Append(p, Num(i - 1)), anc \cup {l.n}) :
                  i \in 1..Min(Len(hp[l.n].e), Len(hp[r.n].e))}
  ELSE UNION {KnotsFrom(hp, Get(hp, l, Str(k)).v, Get(hp, r, Str(k)).v, Append(p, Str(k)),
                        anc \cup {l.n}) :
                k \in Range(hp[l.n].k) \cap Range(hp[r.n].k)}
KnotsMet == KnotsFrom(h, a, b, <<>>, {})
GuardedAt(g) ==
  /\ RecordsBeneath(res.items, g.path) = <<>>
  /\ RecordsAt(res.items, g.path) =
       IF g.l = g.r THEN <<>> ELSE <<EditDiff(g.path, g.l, g.r)>>
C24_CycleGuard ==
  (pc = "diffed" /\ ~res.err) => \A g \in KnotsMet : GuardedAt(g)

\* A diff that met a cycle with another reference on the right, and
\* reported it by one Edited.
C24_Witness ==
  /\ pc = "diffed" /\ ~res.err
  /\ \E g \in KnotsMet : g.l # g.r /\ Len(RecordsAt(res.items, g.path)) = 1

(***************************************************************************)
(* C25.  Stack discipline: at every point of a diff the comparison stack   *)
(* holds exactly the {left, right} pairs of the composite ancestors of the *)
(* location being compared, in root-to-leaf order; every recursive call    *)
(* returns with the stack as it was on entry, early returns through the    *)
(* prefilter included; the stack is empty when the top-level call returns; *)
(* a left object reachable through two sibling paths is compared in full   *)
(* under both.                                                             *)
(***************************************************************************)
\* The calls of deepDiff a diff is made of, each with the pairs of its
\* composite ancestors from the root down: [l, r, path, key, up].
Call(l, r, p, key, up) == [l |-> l, r |-> r, path |-> p, key |-> key, up |-> up]
Here(c) == IF c.key = Undef THEN c.path ELSE Append(c.path, c.key)
Entered(hp, c) ==
  /\ ~(c.key # Undef /\ PrefilterSkips(pf, c.path, c.key))
  /\ SameKind(hp, c.l, c.r)
  /\ \A i \in DOMAIN c.up : c.up[i].lhs # c.l
Below(c) == Append(c.up, [lhs |-> c.l, rhs |-> c.r])
RECURSIVE CallsFrom(_, _)
CallsFrom(hp, c) ==
  {c} \cup
  IF ~Entered(hp, c) THEN {}
  ELSE IF hp[c.l.n].arr
    THEN UNION {CallsFrom(hp, Call(Get(hp, c.l, Num(i)).v, Get(hp, c.r, Num(i)).v, Here(c), Num(i),
                                   Below(c))) :
                  i \in 0..(Min(Len(hp[c.l.n].e), Len(hp[c.r.n].e)) - 1)}
  ELSE UNION {CallsFrom(hp, Call(Get(hp, c.l, Str(k)).v, Get(hp, c.r, Str(k)).v, Here(c), Str(k),
                                 Below(c))) :
                k \in Range(hp[c.l.n].k) \cup (Range(hp[c.r.n].k) \ {""})}
Calls == CallsFrom(h, Call(a, b, <<>>, Undef, <<>>))

\* The call made on its own, with the pairs of the ancestors as its stack.
Alone(c) ==
  deepDiff([h |-> h, changes |-> <<>>, stack |-> c.up, err |-> FALSE, oi |-> FALSE],
           c.l, c.r, c.path, c.key, pf)
\* The records of the result at or beneath a location, in emission order.
RecordsWithin(items, p) == SelectSeq(items, LAMBDA x : IsPrefix(p, Loc(x)))
Disciplined(c, run) ==
  /\ run.stack = c.up
  /\ run.changes = RecordsWithin(res.items, Here(c))
C25_StackDiscipline ==
  (pc = "diffed" /\ ~res.err) => \A c \in Calls : Disciplined(c, Alone(c))

\* One left object under two sibling keys, compared in full under both:
\* as many records beneath the one key as beneath the other.
C25_Witness ==
  /\ pc = "diffed" /\ ~res.err /\ IsPlain(h, a) /\ IsPlain(h, b)
  /\ IsRef(Get(h, a, KeyA).v) /\ Get(h, a, KeyA).v = Get(h, a, KeyB).v
  /\ RecordsBeneath(res.items, <<KeyA>>) # <<>>
  /\ RecordsBeneath(res.items, <<KeyB>>) # <<>>
  /\ Len(RecordsBeneath(res.items, <<KeyA>>)) = Len(RecordsBeneath(res.items, <<KeyB>>))

(***************************************************************************)
(* C26.  Completeness over object keys: for two plain objects at the same  *)
(* location, every own key present only on the right (the empty string     *)
(* included) yields exactly one Added at that key carrying the whole right *)
(* subtree, every own key present only on the left exactly one Removed     *)
(* carrying the whole left subtree, and no record lies beneath such a key. *)
(***************************************************************************)
BothPlain(s) == s.lo /\ s.ro /\ IsPlain(h, s.l) /\ IsPlain(h, s.r)
OnlyRecord(p, c) == RecordsAt(res.items, p) = <<c>> /\ RecordsBeneath(res.items, p) = <<>>
RightOnlyAdded(s) ==
  \A k \in Range(h[s.r.n].k) \ Range(h[s.l.n].k) :
    OnlyRecord(Append(s.path, Str(k)), NewDiff(Append(s.path, Str(k)), Get(h, s.r, Str(k)).v))
LeftOnlyRemoved(s) ==
  \A k \in Range(h[s.l.n].k) \ Range(h[s.r.n].k) :
    OnlyRecord(Append(s.path, Str(k)), DeleteDiff(Append(s.path, Str(k)), Get(h, s.l, Str(k)).v))
C26_KeysComplete ==
  PlainDiffed =>
    \A s \in Sites : BothPlain(s) => (RightOnlyAdded(s) /\ LeftOnlyRemoved(s))

(***************************************************************************)
(* C27.  Inverse on arbitrary record sequences: for an object target t and *)
(* a sequence cs of records with non-empty paths that applies without      *)
(* error, every record being faithful when it is applied (an Added's       *)
(* location is absent, a Removed's or Edited's oldValue equals the value   *)
(* at its location), revertChanges(applyChanges(t, cs), cs) deep-equals t. *)
(***************************************************************************)
ValueAt(hp, v, path) == Follow(hp, v, Append(path, Undef), 1)
\* The record agrees with the value it is about to be applied to: c is
\* applied to t, or, as the item of an ArrayChange, to slot index of t.
RECURSIVE FaithfulTo(_, _, _)
FaithfulItem(hp, arr, index, item) ==
  IF item.path # <<>> \/ item.kind = "A" THEN FaithfulTo(hp, Get(hp, arr, Num(index)).v, item)
  ELSE IF item.kind = "N" THEN ~HasOwn(hp, arr, Num(index))
  ELSE HasOwn(hp, arr, Num(index)) /\ DeepEqual(hp, Get(hp, arr, Num(index)).v, hp, item.lhs)
FaithfulTo(hp, t, c) ==
  CASE c.kind = "A" -> IsArray(hp, ValueAt(hp, t, c.path))
                       /\ FaithfulItem(hp, ValueAt(hp, t, c.path), c.index, c.item[1])
    [] c.kind = "N" -> ~HasOwn(hp, Follow(hp, t, c.path, 1), LastKey(c.path))
    [] c.kind \in {"D", "E"} ->
         /\ HasOwn(hp, Follow(hp, t, c.path, 1), LastKey(c.path))
         /\ DeepEqual(hp, ValueAt(hp, t, c.path), hp, c.lhs)
    [] OTHER -> FALSE
RECURSIVE FaithfulFrom(_, _, _, _)
FaithfulFrom(hp, t, items, i) ==
  IF i > Len(items) THEN TRUE
  ELSE /\ items[i].path # <<>>
       /\ FaithfulTo(hp, t, items[i])
       /\ FaithfulFrom(applyChange(hp, t, items[i]).h, t, items, i + 1)
FaithfulOn(w) == FaithfulFrom(w.h, w.v, cs.items, 1)
Undone(r) == ~r.err /\ DeepEqual(r.h, r.v, h, a)
C27_InverseOnSequences ==
  (pc = "patched" /\ op = "apply" /\ tgt = "a" /\ crafted /\ ~out.err /\ IsPlain(h, a)
     /\ FaithfulOn(cloneDeep(h, a)))
    => Undone(revertChanges(h, out.v, cs))

(***************************************************************************)
(* C28.  Removing an array slot never lengthens the array: when an         *)
(* ArrayChange carrying a pathless Removed is applied, or one carrying a   *)
(* pathless Added is reverted, at an index greater than or equal to the    *)
(* current length of the array, the array's length and elements are        *)
(* unchanged.                                                              *)
(***************************************************************************)
RemovesSlot(c) ==
  /\ c.kind = "A" /\ c.item[1].path = <<>>
  /\ \/ op = "apply" /\ c.item[1].kind = "D"
     \/ op = "revert" /\ c.item[1].kind = "N"
PastTheEnd(c, arr) == IsArray(h, arr) /\ c.index >= Len(h[arr.n].e)
SlotRemovalAt(c, arr) ==
  (RemovesSlot(c) /\ PastTheEnd(c, arr) /\ ~out.err)
    => DeepEqual(h, ValueAt(h, out.v, c.path), h, arr)
C28_NeverLengthens ==
  (pc = "patched" /\ crafted /\ Len(cs.items) = 1 /\ cs.items[1] # NullChange)
    => SlotRemovalAt(cs.items[1], ValueAt(h, Target(tgt), cs.items[1].path))

(***************************************************************************)
(* C29.  The order-independent diff and getOrderIndependentHash terminate  *)
(* without error when the arrays being compared contain elements (objects  *)
(* or arrays) that have reference cycles.                                  *)
(***************************************************************************)
\* An array met by both sides at the root whose elements lead back to
\* themselves.
HoldsCycle(v) == IsArray(h, v) /\ \E i \in DOMAIN h[v.n].e : Endless(h, h[v.n].e[i])
C29_CyclicElements ==
  (OrderDiffed /\ IsArray(h, a) /\ IsArray(h, b) /\ (HoldsCycle(a) \/ HoldsCycle(b)))
    => ~res.err

(***************************************************************************)
(* C30.  Disjoint locations: in every diff result the locations addressed  *)
(* by the records (the path, or the path followed by the index for an      *)
(* ArrayDiff) are pairwise distinct and none is a proper prefix of         *)
(* another, so no record of a diff addresses a value inside something that *)
(* another record of the same diff adds, removes or replaces.              *)
(***************************************************************************)
\* The records the call has emitted: those behind the ones the caller's
\* accumulator held already.
Emitted == SubSeq(res.items, Len(accum.items) + 1, Len(res.items))
Disjoint(items) ==
  \A i, j \in DOMAIN items : i # j => ~IsPrefix(Loc(items[i]), Loc(items[j]))
C30_DisjointLocations == (pc = "diffed" /\ ~res.err) => Disjoint(Emitted)
\* An array that lost or gained a slot while a value inside another of its
\* slots changed.
C30_Witness ==
  /\ pc = "diffed" /\ ~res.err
  /\ \E i, j \in DOMAIN Emitted :
       /\ Emitted[i].kind = "A" /\ Emitted[j].kind # "A"
       /\ IsProperPrefix(Emitted[i].path, Emitted[j].path)
       /\ Len(Emitted[j].path) > Len(Loc(Emitted[i]))

====
